---- MODULE Spec2Model ----
(***************************************************************************)
(* A model of go-netstat: the socket-table collection pipeline             *)
(* (netstat.Netstat and its per-file workers), the process enrichment      *)
(* (extractProcInfo / iterFdDir / getProcess with its package-level        *)
(* processCache) and the namespace resolver (netns.GetNetNsPids).          *)
(***************************************************************************)
EXTENDS Integers, Sequences, FiniteSets, TLC

\* ------------------------------------------------------------------------
\* Bounds of the model
\* ------------------------------------------------------------------------
\* at most this many socket-table files (per-file workers) in one call
MaxFiles == 2
\* at most this many data lines after the header in a socket table
MaxRows == 2
\* at most this many consecutive Netstat calls in one behaviour
MaxCalls == 2
\* only the first NumProtos protocol flags are ever switched on
NumProtos == 2

\* ------------------------------------------------------------------------
\* Program constants
\* ------------------------------------------------------------------------
pathTCPTab == "/proc/net/tcp"
pathTCP6Tab == "/proc/net/tcp6"
pathUDPTab == "/proc/net/udp"
pathUDP6Tab == "/proc/net/udp6"
pathUDPLiteTab == "/proc/net/udplite"
pathUDPLite6Tab == "/proc/net/udplite6"
pathRawTab == "/proc/net/raw"
pathRaw6Tab == "/proc/net/raw6"

Established == 1
Listen == 10

\* the host namespace in the working PID set (the default, empty PID)
HostPid == 0

\* a nil *Process
NoProcess == [Pid |-> -1, Name |-> <<>>]

\* ------------------------------------------------------------------------
\* Small helpers on sequences
\* ------------------------------------------------------------------------
RECURSIVE Concat(_)
Concat(ss) == IF Len(ss) = 0 THEN <<>> ELSE Head(ss) \o Concat(Tail(ss))

Range(s) == {s[i] : i \in 1..Len(s)}

RECURSIVE Dedup(_)
\* keeps the first occurrence of every element
Dedup(s) ==
    IF Len(s) = 0 THEN <<>>
    ELSE LET r == Dedup(SubSeq(s, 1, Len(s) - 1))
             x == s[Len(s)]
         IN IF x \in Range(r) THEN r ELSE Append(r, x)

\* ------------------------------------------------------------------------
\* EnableFeatures and procFiles
\* ------------------------------------------------------------------------
FlagNames == <<"TCP", "TCP6", "UDP", "UDP6", "UDPLite", "UDPLite6", "Raw", "Raw6">>

\* procFiles with the TCP6 branch appending the TCP path
procFilesCopyPaste(feature) ==
    (IF feature.TCP THEN <<pathTCPTab>> ELSE <<>>)
    \o (IF feature.TCP6 THEN <<pathTCPTab>> ELSE <<>>)
    \o (IF feature.UDP THEN <<pathUDPTab>> ELSE <<>>)
    \o (IF feature.UDP6 THEN <<pathUDP6Tab>> ELSE <<>>)
    \o (IF feature.UDPLite THEN <<pathUDPLiteTab>> ELSE <<>>)
    \o (IF feature.UDPLite6 THEN <<pathUDPLite6Tab>> ELSE <<>>)
    \o (IF feature.Raw THEN <<pathRawTab>> ELSE <<>>)
    \o (IF feature.Raw6 THEN <<pathRaw6Tab>> ELSE <<>>)

procFiles(feature) ==
    (IF feature.TCP THEN <<pathTCPTab>> ELSE <<>>)
    \o (IF feature.TCP6 THEN <<pathTCP6Tab>> ELSE <<>>)
    \o (IF feature.UDP THEN <<pathUDPTab>> ELSE <<>>)
    \o (IF feature.UDP6 THEN <<pathUDP6Tab>> ELSE <<>>)
    \o (IF feature.UDPLite THEN <<pathUDPLiteTab>> ELSE <<>>)
    \o (IF feature.UDPLite6 THEN <<pathUDPLite6Tab>> ELSE <<>>)
    \o (IF feature.Raw THEN <<pathRawTab>> ELSE <<>>)
    \o (IF feature.Raw6 THEN <<pathRaw6Tab>> ELSE <<>>)

\* file[strings.LastIndex(file, "/")+1:]
TransportOf(file) ==
    CASE file = pathTCPTab -> "tcp"
      [] file = pathTCP6Tab -> "tcp6"
      [] file = pathUDPTab -> "udp"
      [] file = pathUDP6Tab -> "udp6"
      [] file = pathUDPLiteTab -> "udplite"
      [] file = pathUDPLite6Tab -> "udplite6"
      [] file = pathRawTab -> "raw"
      [] file = pathRaw6Tab -> "raw6"

\* ------------------------------------------------------------------------
\* The environment the program reads: the namespace registry and /proc
\* ------------------------------------------------------------------------
\* entries of the namespace registry directory (NetNSPath): a name is either
\* a namespace handle (not a directory) or a plain directory; a handle has
\* the inode of its namespace and may or may not be openable for reading
NsRegistry ==
    [n \in {"testnsnet1", "testnsnet2", "subdir"} |->
        CASE n = "testnsnet1" -> [dir |-> FALSE, openable |-> TRUE, ino |-> 4001]
          [] n = "testnsnet2" -> [dir |-> FALSE, openable |-> TRUE, ino |-> 4002]
          [] n = "subdir" -> [dir |-> TRUE, openable |-> TRUE, ino |-> 4999]]

\* the directory listing of NetNSPath, in ReadDir (name) order
NsRegistryListing == <<"subdir", "testnsnet1", "testnsnet2">>

\* numeric directories under the process root
ProcPids == {999, 1001, 1002}

\* the entries of the process root: numeric directories, the non-numeric
\* directory "net" and a numeric plain file
ProcRoot ==
    {[pid |-> p, numeric |-> TRUE, dir |-> TRUE] : p \in ProcPids}
    \cup {[pid |-> -1, numeric |-> FALSE, dir |-> TRUE],
          [pid |-> 7, numeric |-> TRUE, dir |-> FALSE]}

\* target of /proc/<pid>/ns/net, as the inode inside "net:[<inode>]"
NsNetLink ==
    [p \in ProcPids |->
        CASE p = 999 -> 4000
          [] p = 1001 -> 4001
          [] p = 1002 -> 4002]

\* the set of all orders in which the elements of S can be taken
RECURSIVE Perms(_)
Perms(S) ==
    IF S = {} THEN {<<>>}
    ELSE UNION {{<<x>> \o p : p \in Perms(S \ {x})} : x \in S}

RECURSIVE SortedSeq(_)
SortedSeq(S) ==
    IF S = {} THEN <<>>
    ELSE LET m == CHOOSE x \in S : \A y \in S : x <= y
         IN <<m>> \o SortedSeq(S \ {m})

\* ------------------------------------------------------------------------
\* Namespace resolver (package netns)
\* ------------------------------------------------------------------------
\* GetNetNSNames: the non-directory entries of the registry
GetNetNSNames == SelectSeq(NsRegistryListing, LAMBDA n : ~NsRegistry[n].dir)

\* getNetNsInodeFromBindMount: open + fstat every name, fail on the first error
getNetNsInodeFromBindMount(netNSNames) ==
    IF \A i \in 1..Len(netNSNames) :
          /\ netNSNames[i] \in DOMAIN NsRegistry
          /\ NsRegistry[netNSNames[i]].openable
    THEN [err |-> FALSE,
          inodes |-> [i \in 1..Len(netNSNames) |-> NsRegistry[netNSNames[i]].ino]]
    ELSE [err |-> TRUE, inodes |-> <<>>]

\* getNetNsInodeFromSymlink: stat every name, fail on the first error
getNetNsInodeFromSymlink(netNSNames) ==
    IF \A i \in 1..Len(netNSNames) : netNSNames[i] \in DOMAIN NsRegistry
    THEN [err |-> FALSE,
          inodes |-> [i \in 1..Len(netNSNames) |-> NsRegistry[netNSNames[i]].ino]]
    ELSE [err |-> TRUE, inodes |-> <<>>]

\* inodeToFind[f] = i for every i, f in range inode: the last index wins
inodeToFindOf(inode) ==
    [f \in Range(inode) |->
        CHOOSE i \in 1..Len(inode) :
            inode[i] = f /\ \A j \in 1..Len(inode) : inode[j] = f => j <= i]

\* ClaimAll with the link target not compared: any process claims a wanted inode
RECURSIVE ClaimAllAnyLink(_, _, _, _)
ClaimAllAnyLink(ord, st, idx, netNSNames) ==
    IF Len(ord) = 0 THEN st
    ELSE LET pid == Head(ord)
             target == CHOOSE f \in st.find : TRUE
             st2 == IF st.find # {} /\ Len(netNSNames) > 0
                    THEN [find |-> st.find \ {target},
                          m |-> {e \in st.m : e.pid # pid}
                                \cup {[pid |-> pid, name |-> netNSNames[idx[target]]]}]
                    ELSE st
         IN ClaimAllAnyLink(Tail(ord), st2, idx, netNSNames)

\* the per-process goroutines of getPidofNetNsFromProcInodes, run under the
\* mutex in the order ord; st = [find |-> keys left in inodeToFind, m |-> pidNetNS],
\* the map pidNetNS being a set of [pid, name] pairs with one pair per pid
RECURSIVE ClaimAll(_, _, _, _)
ClaimAll(ord, st, idx, netNSNames) ==
    IF Len(ord) = 0 THEN st
    ELSE LET pid == Head(ord)
             target == NsNetLink[pid]
             st2 == IF target \in st.find /\ Len(netNSNames) > 0
                    THEN [find |-> st.find \ {target},
                          m |-> {e \in st.m : e.pid # pid}
                                \cup {[pid |-> pid, name |-> netNSNames[idx[target]]]}]
                    ELSE st
         IN ClaimAll(Tail(ord), st2, idx, netNSNames)

\* getPidofNetNsFromProcInodes: every result some interleaving can produce
getPidofNetNsFromProcInodes(inode, netNSNames) ==
    LET idx == inodeToFindOf(inode)
        pids == {e.pid : e \in {x \in ProcRoot : x.dir /\ x.numeric}}
        outs == {ClaimAll(ord, [find |-> DOMAIN idx, m |-> {}], idx, netNSNames).m :
                    ord \in Perms(pids)}
    IN {[err |-> m = {}, m |-> m] : m \in outs}

\* GetNetNsPids: bind-mount form first, then the symlink form; never fails
GetNetNsPids(netNSNames) ==
    LET bm == getNetNsInodeFromBindMount(netNSNames)
        sl == getNetNsInodeFromSymlink(netNSNames)
        inodes == IF ~bm.err THEN bm ELSE sl
    IN IF inodes.err THEN {{}}
       ELSE {IF r.err THEN {} ELSE r.m :
                r \in getPidofNetNsFromProcInodes(inodes.inodes, netNSNames)}

\* ------------------------------------------------------------------------
\* Socket tables, lines and entries
\* ------------------------------------------------------------------------
\* a line of a socket-table file: the header, a well-formed data row, or a
\* line the formatted scan or the endpoint decoding rejects
HdrLine == [kind |-> "hdr", Inode |-> 0, State |-> 0]
BadLine == [kind |-> "bad", Inode |-> 0, State |-> 0]
RowLine(inode, state) == [kind |-> "row", Inode |-> inode, State |-> state]

\* the sockets of a table: the k-th data line, when well formed, is the row
\* of the socket with inode 784044 + k, listening for odd k and established
\* for even k
RowAt(k) == RowLine(784044 + k, IF k % 2 = 1 THEN Listen ELSE Established)

\* inodes of the sockets that appear in the tables and in fd directories
Inodes == {RowAt(k).Inode : k \in 1..MaxRows}

RECURSIVE SeqsUpTo(_, _)
SeqsUpTo(S, n) ==
    IF n = 0 THEN {<<>>}
    ELSE LET shorter == SeqsUpTo(S, n - 1)
         IN shorter \cup {Append(q, x) : q \in {r \in shorter : Len(r) = n - 1}, x \in S}

\* the data lines of a table, given which of them are well formed
DataLines(shape) ==
    [k \in 1..Len(shape) |-> IF shape[k] = "row" THEN RowAt(k) ELSE BadLine]

\* what os.Open and the scan of a table file can yield: the open fails, or
\* the file has these lines (an empty file, or a header and data lines)
Tables ==
    {[open |-> FALSE, lines |-> <<>>], [open |-> TRUE, lines |-> <<>>]}
    \cup {[open |-> TRUE, lines |-> <<HdrLine>> \o DataLines(shape)] :
            shape \in SeqsUpTo({"row", "bad"}, MaxRows)}

NoTable == [open |-> FALSE, lines |-> <<>>]

\* fmt.Sscanf + parseAddr (local) + parseAddr (remote) on one data line
DecodeLine(line, transport) ==
    IF line.kind = "row"
    THEN [err |-> FALSE,
          entry |-> [Transport |-> transport, Inode |-> line.Inode,
                     State |-> line.State, Process |-> NoProcess,
                     NetNS |-> "", PodPid |-> HostPid]]
    ELSE [err |-> TRUE,
          entry |-> [Transport |-> "", Inode |-> 0, State |-> 0,
                     Process |-> NoProcess, NetNS |-> "", PodPid |-> HostPid]]

\* the caller's AcceptFn: NoopFilter, a filter that rejects every socket
\* (the counting filter of the README) and the CLI's listening filter
Filters == {"noop", "none", "listen"}

Accept(fn, entry) ==
    CASE fn = "noop" -> TRUE
      [] fn = "none" -> FALSE
      [] fn = "listen" -> entry.State = Listen

\* ------------------------------------------------------------------------
\* Process table: /proc/<pid>/fd and /proc/<pid>/stat
\* ------------------------------------------------------------------------
sockPrefix == "socket:["

\* position of the first c in s (0 if none), as bytes.Index
RECURSIVE IndexOf(_, _)
IndexOf(s, c) ==
    IF Len(s) = 0 THEN 0
    ELSE IF Head(s) = c THEN 1
    ELSE LET r == IndexOf(Tail(s), c) IN IF r = 0 THEN 0 ELSE r + 1

\* position of the last c in s (0 if none), as bytes.LastIndex
RECURSIVE LastIndexOf(_, _)
LastIndexOf(s, c) ==
    IF Len(s) = 0 THEN 0
    ELSE IF s[Len(s)] = c THEN Len(s)
    ELSE LastIndexOf(SubSeq(s, 1, Len(s) - 1), c)

\* bytes.SplitN(s, " ", n)
RECURSIVE SplitN(_, _)
SplitN(s, n) ==
    LET k == IndexOf(s, " ")
    IN IF n <= 1 \/ k = 0 THEN <<s>>
       ELSE <<SubSeq(s, 1, k - 1)>> \o SplitN(SubSeq(s, k + 1, Len(s)), n - 1)

\* getProcName of package netstat: first "(" to last ")"; positions are
\* 1-based here, so Go's i is i1 - 1 and Go's j is j1 - 1
getProcName(s) ==
    LET i1 == IndexOf(s, "(")
        j1 == LastIndexOf(s, ")")
    IN IF i1 = 0 THEN <<>>
       ELSE IF j1 - 1 < 1 \/ i1 >= j1 - 1 THEN <<>>
       ELSE SubSeq(s, i1 + 1, j1 - 1)

\* the text of a status file: "<pid> (<comm>) S 0"
StatText(comm) == <<"9", " ", "(">> \o comm \o <<")", " ", "S", " ", "0">>

NoStat == [readable |-> FALSE, text |-> <<>>]
Stat(comm) == [readable |-> TRUE, text |-> StatText(comm)]

SockLink(ino) == [prefix |-> sockPrefix, ino |-> ino]
NetLink(ino) == [prefix |-> "net:[", ino |-> ino]

\* one process directory: whether fd can be listed, the targets of the
\* links in fd, and the status file
Proc(fdok, fd, stat) == [fdok |-> fdok, fd |-> fd, stat |-> stat]

\* the snapshots of the process table the enrichment can find: 999 holds
\* the first socket and its status file varies, 1001 holds a namespace
\* handle and possibly the first socket too and has no readable status
\* file, and the fd directory of 1002 cannot be listed
ProcTables ==
    {[p \in ProcPids |->
        CASE p = 999 -> Proc(TRUE, {SockLink(RowAt(1).Inode)}, st)
          [] p = 1001 -> Proc(TRUE, {NetLink(4001)} \cup more, NoStat)
          [] p = 1002 -> Proc(FALSE, {SockLink(RowAt(2).Inode)}, NoStat)] :
        st \in {Stat(<<"a">>), Stat(<<"b">>), NoStat},
        more \in {{}, {SockLink(RowAt(1).Inode)}}}

\* the process table before any enrichment has looked at it
NoProcs == [p \in ProcPids |-> Proc(FALSE, {}, NoStat)]

\* procFd.getProcess for the process directory of pid, with the cache as
\* it is; yields the *Process (NoProcess for nil) and the cache afterwards
getProcess(pid, cache, stat) ==
    IF cache[pid] # NoProcess
    THEN [p |-> cache[pid], cache |-> cache]
    ELSE IF ~stat.readable \/ Len(stat.text) = 0
    THEN [p |-> NoProcess, cache |-> cache]
    ELSE LET z == SplitN(stat.text, 3)
             process == [Pid |-> pid, Name |-> getProcName(z[2])]
         IN [p |-> process, cache |-> [cache EXCEPT ![pid] = process]]

\* the indices of sktab whose inode is the target of a socket link of proc
Matches(proc, sktab) ==
    {i \in 1..Len(sktab) :
        \E l \in proc.fd : l.prefix = sockPrefix /\ l.ino = sktab[i].Inode}

\* procFd.iterFdDir for one process: every matching entry gets p.p, which
\* is fetched by getProcess at the first match (and again while it is nil);
\* the entries in lost are written too, but a concurrent worker's write to
\* them lands later, so they keep the value they have
iterFdDir(pid, proc, sktab, cache, lost) ==
    IF ~proc.fdok \/ Matches(proc, sktab) = {}
    THEN [sktab |-> sktab, cache |-> cache, wrote |-> {}]
    ELSE LET g == getProcess(pid, cache, proc.stat)
         IN [sktab |-> [i \in 1..Len(sktab) |->
                          IF i \in Matches(proc, sktab) \ lost
                          THEN [sktab[i] EXCEPT !.Process = g.p]
                          ELSE sktab[i]],
             cache |-> g.cache,
             wrote |-> Matches(proc, sktab)]

\* ------------------------------------------------------------------------
\* The working PID set and the file list of one Netstat call
\* ------------------------------------------------------------------------
\* the names to resolve: NetNsName, plus every registry name with AllNetNs
NamesToResolve(feature) ==
    IF feature.AllNetNs THEN Dedup(feature.NetNsName \o GetNetNSNames)
    ELSE feature.NetNsName

\* the label of a namespace PID: its name, or the PID as a string
NetNsLabel(pid, pidNetNS) ==
    IF \E e \in pidNetNS : e.pid = pid
    THEN (CHOOSE e \in pidNetNS : e.pid = pid).name
    ELSE ToString(pid)

\* the PIDs whose tables are read: the host unless excluded, the PIDs of
\* the resolved names, the explicit PIDs; every PID once
WorkingPids(feature, pidNetNS) ==
    Dedup((IF feature.NoHostNetwork THEN <<>> ELSE <<HostPid>>)
          \o SortedSeq({e.pid : e \in pidNetNS})
          \o feature.NetNsPids)

\* the socket-table files of the call: every working PID with every
\* enabled protocol file
FileList(feature, pidNetNS) ==
    LET pids == WorkingPids(feature, pidNetNS)
        protos == procFiles(feature)
    IN Concat([k \in 1..Len(pids) |->
                 [j \in 1..Len(protos) |->
                    [pid |-> pids[k], path |-> protos[j],
                     label |-> IF pids[k] = HostPid THEN ""
                               ELSE NetNsLabel(pids[k], pidNetNS)]]])

\* the namespace label every merged entry of a file gets
Labelled(tabs, file) ==
    [k \in 1..Len(tabs) |-> [tabs[k] EXCEPT !.NetNS = file.label]]

\* ------------------------------------------------------------------------
\* Inputs of a call
\* ------------------------------------------------------------------------
Feature(protos, pid, nohost, allns, names, nspids) ==
    [TCP |-> "TCP" \in protos, TCP6 |-> "TCP6" \in protos,
     UDP |-> "UDP" \in protos, UDP6 |-> "UDP6" \in protos,
     UDPLite |-> "UDPLite" \in protos, UDPLite6 |-> "UDPLite6" \in protos,
     Raw |-> "Raw" \in protos, Raw6 |-> "Raw6" \in protos,
     PID |-> pid, NoHostNetwork |-> nohost, AllNetNs |-> allns,
     NetNsName |-> names, NetNsPids |-> nspids]

NoFeature == Feature({}, FALSE, FALSE, FALSE, <<>>, <<>>)

NsNameInputs == {<<>>, <<"testnsnet1">>, <<"testnsnet2">>, <<"nosuchns">>}
NsPidInputs == {<<>>, <<1001>>}

\* the calls of the host-only pipeline: protocol flags and the PID flag
FeatureInputs ==
    {Feature(protos, pid, FALSE, FALSE, <<>>, <<>>) :
        protos \in SUBSET {FlagNames[k] : k \in 1..NumProtos},
        pid \in BOOLEAN}

\* the calls that select namespaces
NsFeatureInputs ==
    {Feature(protos, pid, nohost, allns, names, nspids) :
        protos \in SUBSET {FlagNames[k] : k \in 1..NumProtos},
        pid \in BOOLEAN, nohost \in BOOLEAN, allns \in BOOLEAN,
        names \in NsNameInputs, nspids \in NsPidInputs}

\* ------------------------------------------------------------------------
\* State
\* ------------------------------------------------------------------------
VARIABLES
    calls,          \* number of Netstat calls made so far
    processCache,   \* the package-level processCache: pid (base) -> *Process
    procs,          \* the process table as the enrichment of this call found it
    feature,        \* EnableFeatures of the current call
    fn,             \* AcceptFn of the current call
    ctxDone,        \* ctx.Done() is closed
    files,          \* files of the current call: [pid, path, label]
    w,              \* the per-file goroutines, one record per file
    mpc,            \* where Netstat itself is
    mi,             \* index of the channel the collection loop waits on
    combinedTabs,   \* combinedTabs, and the returned slice after the return
    err,            \* the returned error: "nil" or "context canceled"
    pidCh,          \* PIDs in pidCh that no worker has taken yet
    scanned,        \* PIDs whose directory a worker has handled in this call
    written,        \* entries whose Process some worker wrote in this call
    cancelAt,       \* whether the cancellation came before the last result was collected
    fcall,          \* a call of one of the decoding functions: [op, arg, accept]
    fret,           \* what that call returned
    fdPc,           \* where GetProcessFDs is
    fdTree,         \* the process root GetProcessFDs reads
    fdCtxDone,      \* the context of GetProcessFDs is cancelled
    fdWorkers,      \* the per-entry goroutines of GetProcessFDs
    processFDs,     \* processFDs: the pairs [fd, process] of the map
    fdProcessCache, \* the processCache local to one GetProcessFDs call
    procErr,        \* the error GetProcessFDs returned
    nsPc,           \* where the call of the namespace resolver is
    nsCall,         \* that call: [op, reg, proc, inode, names]
    nsForm,         \* the form GetNetNsPids took the inodes from
    inodeToFind,    \* inodeToFind: the pairs [f, i] of the map
    pidNetNSMap,    \* pidNetNS: the pairs [pid, name] of the map
    nsWorkers,      \* the per-process goroutines of the resolver
    nsRet           \* what the call returned

\* the state of the Netstat pipeline
netstatVars == <<calls, processCache, procs, feature, fn, ctxDone, files, w, mpc, mi,
                 combinedTabs, err, pidCh, scanned, written, cancelAt>>

\* the state of a call of a decoding function
fnVars == <<fcall, fret>>

\* the state of GetProcessFDs
fdVars == <<fdPc, fdTree, fdCtxDone, fdWorkers, processFDs, fdProcessCache, procErr>>

\* the state of a call of the namespace resolver
nsVars == <<nsPc, nsCall, nsForm, inodeToFind, pidNetNSMap, nsWorkers, nsRet>>

\* what the Netstat pipeline never touches
others == <<fnVars, fdVars, nsVars>>

vars == <<netstatVars, fnVars, fdVars, nsVars>>

\* the context has not been cancelled
NotCancelled == "never"

NoEntry == DecodeLine(BadLine, "").entry

\* a goroutine that has just been started for a file
NewWorker ==
    [pc |-> "check", late |-> FALSE, tab |-> NoTable, line |-> 0,
     sockTab |-> <<>>, cur |-> NoEntry, val |-> <<>>, ferr |-> "none",
     log |-> <<>>]

NetstatIdle ==
    /\ calls = 0
    /\ processCache = [p \in ProcPids |-> NoProcess]
    /\ procs = NoProcs
    /\ feature = NoFeature
    /\ fn = "noop"
    /\ ctxDone = FALSE
    /\ files = <<>>
    /\ w = <<>>
    /\ mpc = "idle"
    /\ mi = 1
    /\ combinedTabs = <<>>
    /\ err = "nil"
    /\ pidCh = {}
    /\ scanned = {}
    /\ written = {}
    /\ cancelAt = NotCancelled

\* no decoding function is being called
NoCall == [op |-> "none", arg |-> <<>>, accept |-> "noop"]
NotRun == [done |-> FALSE]

FnIdle == fcall = NoCall /\ fret = NotRun

\* GetProcessFDs is not being called
FdIdle ==
    /\ fdPc = "idle"
    /\ fdTree = <<>>
    /\ fdCtxDone = FALSE
    /\ fdWorkers = <<>>
    /\ processFDs = {}
    /\ fdProcessCache = {}
    /\ procErr = "nil"

\* the namespace resolver is not being called
NoNsCall == [op |-> "none", reg |-> <<>>, proc |-> <<>>, inode |-> <<>>, names |-> <<>>]

NsIdle ==
    /\ nsPc = "idle"
    /\ nsCall = NoNsCall
    /\ nsForm = "none"
    /\ inodeToFind = {}
    /\ pidNetNSMap = {}
    /\ nsWorkers = <<>>
    /\ nsRet = NotRun

Init == NetstatIdle /\ FnIdle /\ FdIdle /\ NsIdle

\* ------------------------------------------------------------------------
\* Netstat: the call, up to the launch of the per-file goroutines
\* ------------------------------------------------------------------------
\* a call whose file list has at most the given number of files
CallOfFiles(f, filt, pidNetNS, most) ==
    /\ mpc \in {"idle", "returned"}
    /\ calls < MaxCalls
    /\ \A i \in 1..Len(w) : w[i].pc \in {"send", "done"}
    /\ Len(FileList(f, pidNetNS)) <= most
    /\ calls' = calls + 1
    /\ feature' = f
    /\ fn' = filt
    /\ ctxDone' = FALSE
    /\ files' = FileList(f, pidNetNS)
    /\ w' = [i \in 1..Len(FileList(f, pidNetNS)) |-> NewWorker]
    /\ mpc' = "collect"
    /\ mi' = 1
    /\ combinedTabs' = <<>>
    /\ err' = "nil"
    /\ pidCh' = {}
    /\ scanned' = {}
    /\ written' = {}
    /\ cancelAt' = NotCancelled
    /\ procs' = NoProcs
    /\ UNCHANGED others
    /\ UNCHANGED processCache

Call(f, filt, pidNetNS) == CallOfFiles(f, filt, pidNetNS, MaxFiles)

\* the caller cancels the context
Cancel ==
    /\ mpc \in {"collect", "extract"}
    /\ ~ctxDone
    /\ ctxDone' = TRUE
    /\ cancelAt' = IF mpc = "collect" /\ mi <= Len(files) THEN "collecting" ELSE "collected"
    /\ UNCHANGED others
    /\ UNCHANGED <<calls, processCache, procs, feature, fn, files, w, mpc, mi,
                   combinedTabs, err, pidCh, scanned, written>>

\* ------------------------------------------------------------------------
\* The goroutine of file i
\* ------------------------------------------------------------------------
wUnchanged == <<calls, processCache, procs, feature, fn, ctxDone, files, mpc, mi,
                combinedTabs, err, pidCh, scanned, written, cancelAt>>

\* WorkerCheck with the entry check left out: the file is always opened
WorkerCheckNoCancel(i) ==
    /\ i \in 1..Len(w)
    /\ w[i].pc = "check"
    /\ w' = [w EXCEPT ![i] = [@ EXCEPT !.pc = "open", !.late = ctxDone]]
    /\ UNCHANGED others
    /\ UNCHANGED wUnchanged

\* select { case <-ctx.Done(): ... default: ... }
WorkerCheck(i) ==
    /\ i \in 1..Len(w)
    /\ w[i].pc = "check"
    /\ w' = [w EXCEPT ![i] =
                IF ctxDone
                THEN [@ EXCEPT !.pc = "send", !.val = <<>>, !.late = ctxDone]
                ELSE [@ EXCEPT !.pc = "open", !.late = ctxDone]]
    /\ UNCHANGED others
    /\ UNCHANGED wUnchanged

\* openFileStream without the scanner.Scan() that discards the header
openFileStreamKeepHeader(i, t) ==
    /\ i \in 1..Len(w)
    /\ w[i].pc = "open"
    /\ w' = [w EXCEPT ![i] =
                IF ~t.open
                THEN [@ EXCEPT !.pc = "send", !.val = <<>>, !.ferr = "open", !.tab = t]
                ELSE [@ EXCEPT !.pc = "scan", !.tab = t, !.line = 1]]
    /\ UNCHANGED others
    /\ UNCHANGED wUnchanged

\* openFileStream: os.Open, and the first scanner.Scan() of parseSockTab
\* that discards the header; t is what the file system holds at that moment
openFileStream(i, t) ==
    /\ i \in 1..Len(w)
    /\ w[i].pc = "open"
    /\ w' = [w EXCEPT ![i] =
                IF ~t.open
                THEN [@ EXCEPT !.pc = "send", !.val = <<>>, !.ferr = "open", !.tab = t]
                ELSE [@ EXCEPT !.pc = "scan", !.tab = t, !.line = 2]]
    /\ UNCHANGED others
    /\ UNCHANGED wUnchanged

\* parseSockTab, one round of the scan loop up to the call of accept
parseSockTab(i) ==
    /\ i \in 1..Len(w)
    /\ w[i].pc = "scan"
    /\ LET d == DecodeLine(w[i].tab.lines[w[i].line], TransportOf(files[i].path))
           entry == [d.entry EXCEPT !.PodPid = files[i].pid]
       IN w' = [w EXCEPT ![i] =
                IF w[i].line > Len(w[i].tab.lines)
                THEN [@ EXCEPT !.pc = "send", !.val = w[i].sockTab]
                ELSE IF d.err
                THEN [@ EXCEPT !.pc = "send", !.val = <<>>, !.ferr = "decode"]
                ELSE [@ EXCEPT !.pc = "accept", !.cur = entry,
                               !.log = Append(@, [line |-> w[i].line,
                                                  Process |-> entry.Process])]]
    /\ UNCHANGED others
    /\ UNCHANGED wUnchanged

\* acceptReturn that goes back to the scan loop without moving to the next
\* line: the filter is called for the line again
acceptReturnSameLine(i) ==
    /\ i \in 1..Len(w)
    /\ w[i].pc = "accept"
    /\ Len(w[i].log) < MaxRows + 1
    /\ w' = [w EXCEPT ![i] =
                [@ EXCEPT !.pc = "scan", !.cur = NoEntry,
                          !.sockTab = IF Accept(fn, w[i].cur)
                                      THEN Append(@, w[i].cur) ELSE @]]
    /\ UNCHANGED others
    /\ UNCHANGED wUnchanged

\* accept returns; the entry is appended if it was accepted
acceptReturn(i) ==
    /\ i \in 1..Len(w)
    /\ w[i].pc = "accept"
    /\ w' = [w EXCEPT ![i] =
                [@ EXCEPT !.pc = "scan", !.line = @ + 1, !.cur = NoEntry,
                          !.sockTab = IF Accept(fn, w[i].cur)
                                      THEN Append(@, w[i].cur) ELSE @]]
    /\ UNCHANGED others
    /\ UNCHANGED wUnchanged

\* ------------------------------------------------------------------------
\* Netstat: the collection loop
\* ------------------------------------------------------------------------
\* CollectRecv with combinedTabs = tabs in place of the append
CollectRecvOverwrite ==
    /\ mpc = "collect"
    /\ mi <= Len(files)
    /\ w[mi].pc = "send"
    /\ combinedTabs' = Labelled(w[mi].val, files[mi])
    /\ w' = [w EXCEPT ![mi] = [@ EXCEPT !.pc = "done"]]
    /\ mi' = mi + 1
    /\ UNCHANGED others
    /\ UNCHANGED <<calls, processCache, procs, feature, fn, ctxDone, files, mpc,
                   err, pidCh, scanned, written, cancelAt>>

\* case tabs := <-ch: the goroutine's send and this receive meet
CollectRecv ==
    /\ mpc = "collect"
    /\ mi <= Len(files)
    /\ w[mi].pc = "send"
    /\ combinedTabs' = combinedTabs \o Labelled(w[mi].val, files[mi])
    /\ w' = [w EXCEPT ![mi] = [@ EXCEPT !.pc = "done"]]
    /\ mi' = mi + 1
    /\ UNCHANGED others
    /\ UNCHANGED <<calls, processCache, procs, feature, fn, ctxDone, files, mpc,
                   err, pidCh, scanned, written, cancelAt>>

\* CollectCancel with return nil, ctx.Err(): what was merged is dropped
CollectCancelDropResult ==
    /\ mpc = "collect"
    /\ mi <= Len(files)
    /\ ctxDone
    /\ mpc' = "returned"
    /\ err' = "context canceled"
    /\ combinedTabs' = <<>>
    /\ UNCHANGED others
    /\ UNCHANGED <<calls, processCache, procs, feature, fn, ctxDone, files, w, mi,
                   pidCh, scanned, written, cancelAt>>

\* case <-ctx.Done(): return combinedTabs, ctx.Err()
CollectCancel ==
    /\ mpc = "collect"
    /\ mi <= Len(files)
    /\ ctxDone
    /\ mpc' = "returned"
    /\ err' = "context canceled"
    /\ UNCHANGED others
    /\ UNCHANGED <<calls, processCache, procs, feature, fn, ctxDone, files, w, mi,
                   combinedTabs, pidCh, scanned, written, cancelAt>>

\* extractProcInfo entered on feature.PID alone, without the length check
extractProcInfoAlways(snap) ==
    /\ mpc = "collect"
    /\ mi > Len(files)
    /\ feature.PID
    /\ procs' = snap
    /\ pidCh' = {e.pid : e \in {x \in ProcRoot : x.dir /\ x.numeric}}
    /\ mpc' = "extract"
    /\ UNCHANGED others
    /\ UNCHANGED <<calls, processCache, feature, fn, ctxDone, files, w, mi,
                   combinedTabs, err, scanned, written, cancelAt>>

\* after the loop, feature.PID && len(combinedTabs) != 0: extractProcInfo
\* lists the process root (snap is what it holds) and fills pidCh
extractProcInfo(snap) ==
    /\ mpc = "collect"
    /\ mi > Len(files)
    /\ feature.PID /\ Len(combinedTabs) # 0
    /\ procs' = snap
    /\ pidCh' = {e.pid : e \in {x \in ProcRoot : x.dir /\ x.numeric}}
    /\ mpc' = "extract"
    /\ UNCHANGED others
    /\ UNCHANGED <<calls, processCache, feature, fn, ctxDone, files, w, mi,
                   combinedTabs, err, scanned, written, cancelAt>>

\* after the loop, no enrichment: return combinedTabs, nil
ReturnNil ==
    /\ mpc = "collect"
    /\ mi > Len(files)
    /\ ~(feature.PID /\ Len(combinedTabs) # 0)
    /\ mpc' = "returned"
    /\ err' = "nil"
    /\ UNCHANGED others
    /\ UNCHANGED <<calls, processCache, procs, feature, fn, ctxDone, files, w, mi,
                   combinedTabs, pidCh, scanned, written, cancelAt>>

\* a worker of extractProcInfo takes pid from pidCh and runs iterFdDir
ExtractWorker(pid, lost) ==
    /\ mpc = "extract"
    /\ pid \in pidCh
    /\ lost \subseteq (Matches(procs[pid], combinedTabs) \cap written)
    /\ LET r == iterFdDir(pid, procs[pid], combinedTabs, processCache, lost)
       IN /\ combinedTabs' = r.sktab
          /\ processCache' = r.cache
          /\ written' = written \cup r.wrote
    /\ pidCh' = pidCh \ {pid}
    /\ scanned' = scanned \cup {pid}
    /\ UNCHANGED others
    /\ UNCHANGED <<calls, procs, feature, fn, ctxDone, files, w, mpc, mi, err, cancelAt>>

\* ExtractDone without wg.Wait(): the return does not wait for the workers
ExtractDoneNoWait ==
    /\ mpc = "extract"
    /\ mpc' = "returned"
    /\ err' = "nil"
    /\ UNCHANGED others
    /\ UNCHANGED <<calls, processCache, procs, feature, fn, ctxDone, files, w, mi,
                   combinedTabs, pidCh, scanned, written, cancelAt>>

\* close(pidCh); wg.Wait(); return combinedTabs, nil
ExtractDone ==
    /\ mpc = "extract"
    /\ pidCh = {}
    /\ mpc' = "returned"
    /\ err' = "nil"
    /\ UNCHANGED others
    /\ UNCHANGED <<calls, processCache, procs, feature, fn, ctxDone, files, w, mi,
                   combinedTabs, pidCh, scanned, written, cancelAt>>

Next ==
    \/ \E f \in FeatureInputs, filt \in Filters : Call(f, filt, {})
    \/ Cancel
    \/ \E i \in 1..MaxFiles : WorkerCheck(i)
    \/ \E i \in 1..MaxFiles, t \in Tables : openFileStream(i, t)
    \/ \E i \in 1..MaxFiles : parseSockTab(i)
    \/ \E i \in 1..MaxFiles : acceptReturn(i)
    \/ CollectRecv
    \/ CollectCancel
    \/ \E snap \in ProcTables : extractProcInfo(snap)
    \/ ReturnNil
    \/ \E pid \in ProcPids, lost \in SUBSET (1..(MaxFiles * MaxRows)) : ExtractWorker(pid, lost)
    \/ ExtractDone

Spec == Init /\ [][Next]_vars

\* a single call that selects namespaces: the names are resolved by
\* GetNetNsPids and the call goes on as any other (the selection keeps no
\* state between calls and never looks at the filter)
CallNs(f, pidNetNS) ==
    /\ calls = 0
    /\ Call(f, "noop", pidNetNS)

\* the same pipeline, called with namespace selections
NextNs ==
    \/ \E f \in NsFeatureInputs :
          \E pidNetNS \in GetNetNsPids(NamesToResolve(f)) : CallNs(f, pidNetNS)
    \/ Cancel
    \/ \E i \in 1..MaxFiles : WorkerCheck(i)
    \/ \E i \in 1..MaxFiles, t \in Tables : openFileStream(i, t)
    \/ \E i \in 1..MaxFiles : parseSockTab(i)
    \/ \E i \in 1..MaxFiles : acceptReturn(i)
    \/ CollectRecv
    \/ CollectCancel
    \/ \E snap \in ProcTables : extractProcInfo(snap)
    \/ ReturnNil
    \/ \E pid \in ProcPids, lost \in SUBSET (1..(MaxFiles * MaxRows)) : ExtractWorker(pid, lost)
    \/ ExtractDone

SpecNs == Init /\ [][NextNs]_vars

\* ------------------------------------------------------------------------
\* A single call with more protocol files, over fewer tables
\* ------------------------------------------------------------------------
\* number of protocol files of such a call
MaxWide == 3

\* the first MaxWide protocol flags, with and without the PID flag
WideFeatureInputs ==
    {Feature({FlagNames[k] : k \in 1..MaxWide}, pid, FALSE, FALSE, <<>>, <<>>) :
        pid \in BOOLEAN}

\* a file that cannot be opened, a table with one row, and a table with a
\* row and a line that does not decode
WideTables ==
    {[open |-> FALSE, lines |-> <<>>],
     [open |-> TRUE, lines |-> <<HdrLine>> \o DataLines(<<"row">>)],
     [open |-> TRUE, lines |-> <<HdrLine>> \o DataLines(<<"row", "bad">>)]}

CallWide(f) ==
    /\ calls = 0
    /\ CallOfFiles(f, "noop", {}, MaxWide)

NextWide ==
    \/ \E f \in WideFeatureInputs : CallWide(f)
    \/ Cancel
    \/ \E i \in 1..MaxWide : WorkerCheck(i)
    \/ \E i \in 1..MaxWide, t \in WideTables : openFileStream(i, t)
    \/ \E i \in 1..MaxWide : parseSockTab(i)
    \/ \E i \in 1..MaxWide : acceptReturn(i)
    \/ CollectRecv
    \/ CollectCancel
    \/ \E snap \in ProcTables : extractProcInfo(snap)
    \/ ReturnNil
    \/ \E pid \in ProcPids, lost \in SUBSET (1..(MaxWide * MaxRows)) : ExtractWorker(pid, lost)
    \/ ExtractDone

SpecWide == Init /\ [][NextWide]_vars

\* ------------------------------------------------------------------------
\* A single call with one protocol file and the PID flag, with the
\* scheduling the runtime gives: a worker of extractProcInfo that can take
\* a PID from pidCh does take one, and the function returns when its
\* workers are done
\* ------------------------------------------------------------------------
CallEnrich ==
    /\ calls = 0
    /\ CallOfFiles(Feature({"TCP"}, TRUE, FALSE, FALSE, <<>>, <<>>), "noop", {}, 1)

ExtractStep ==
    \E pid \in ProcPids, lost \in SUBSET (1..MaxRows) : ExtractWorker(pid, lost)

NextEnrich ==
    \/ CallEnrich
    \/ Cancel
    \/ WorkerCheck(1)
    \/ \E t \in Tables : openFileStream(1, t)
    \/ parseSockTab(1)
    \/ acceptReturn(1)
    \/ CollectRecv
    \/ CollectCancel
    \/ \E snap \in ProcTables : extractProcInfo(snap)
    \/ ReturnNil
    \/ ExtractStep
    \/ ExtractDone

SpecEnrich ==
    Init /\ [][NextEnrich]_vars /\ WF_vars(ExtractStep) /\ WF_vars(ExtractDone)

\* ------------------------------------------------------------------------
\* Text and numbers: strings are sequences of one-character strings; a
\* number is the sequence of its digit values, most significant first,
\* without leading zeros (the empty sequence is 0), so that 64-bit values
\* keep their width
\* ------------------------------------------------------------------------
decimalDigits == {"0", "1", "2", "3", "4", "5", "6", "7", "8", "9"}
hexadecimalDigits ==
    decimalDigits \cup {"a", "b", "c", "d", "e", "f", "A", "B", "C", "D", "E", "F"}

\* the value of a digit character
DigitVal(c) ==
    CASE c = "0" -> 0 [] c = "1" -> 1 [] c = "2" -> 2 [] c = "3" -> 3
      [] c = "4" -> 4 [] c = "5" -> 5 [] c = "6" -> 6 [] c = "7" -> 7
      [] c = "8" -> 8 [] c = "9" -> 9
      [] c \in {"a", "A"} -> 10 [] c \in {"b", "B"} -> 11
      [] c \in {"c", "C"} -> 12 [] c \in {"d", "D"} -> 13
      [] c \in {"e", "E"} -> 14 [] c \in {"f", "F"} -> 15

\* space characters of the scanner (no newline inside a line)
isSpace(c) == c \in {" ", "\t"}

\* a number without its leading zeros
RECURSIVE Norm(_)
Norm(ds) == IF Len(ds) > 0 /\ Head(ds) = 0 THEN Norm(Tail(ds)) ELSE ds

\* a <= b for two numbers
RECURSIVE LexLeq(_, _)
LexLeq(a, b) ==
    IF Len(a) = 0 THEN TRUE
    ELSE IF Head(a) # Head(b) THEN Head(a) < Head(b)
    ELSE LexLeq(Tail(a), Tail(b))

NumLeq(a, b) == Len(a) < Len(b) \/ (Len(a) = Len(b) /\ LexLeq(a, b))

\* the largest decimal value of an unsigned type of the given width
MaxUintDec(bitSize) ==
    CASE bitSize = 8 -> <<2, 5, 5>>
      [] bitSize = 16 -> <<6, 5, 5, 3, 5>>
      [] bitSize = 32 -> <<4, 2, 9, 4, 9, 6, 7, 2, 9, 5>>
      [] bitSize = 64 -> <<1, 8, 4, 4, 6, 7, 4, 4, 0, 7, 3, 7, 0, 9, 5, 5, 1, 6, 1, 5>>

\* the largest int64 and the magnitude of the smallest one
MaxInt64Dec == <<9, 2, 2, 3, 3, 7, 2, 0, 3, 6, 8, 5, 4, 7, 7, 5, 8, 0, 7>>
MinInt64Dec == <<9, 2, 2, 3, 3, 7, 2, 0, 3, 6, 8, 5, 4, 7, 7, 5, 8, 0, 8>>

\* the number fits an unsigned type of the given width
FitsUint(v, base, bitSize) ==
    IF base = 16 THEN Len(v) * 4 <= bitSize ELSE NumLeq(v, MaxUintDec(bitSize))

\* a small number as an integer
RECURSIVE ToInt(_, _)
ToInt(v, base) ==
    IF Len(v) = 0 THEN 0
    ELSE ToInt(SubSeq(v, 1, Len(v) - 1), base) * base + v[Len(v)]

\* strconv.ParseUint(s, base, bitSize) for base 10 and 16: no sign, no
\* prefix, at least one digit, and the value within the width
ParseUint(s, base, bitSize) ==
    LET digits == IF base = 16 THEN hexadecimalDigits ELSE decimalDigits
        v == Norm([k \in 1..Len(s) |-> DigitVal(s[k])])
    IN IF Len(s) = 0 \/ \E k \in 1..Len(s) : s[k] \notin digits
       THEN [err |-> "invalid syntax", v |-> <<>>]
       ELSE IF ~FitsUint(v, base, bitSize)
       THEN [err |-> "value out of range", v |-> <<>>]
       ELSE [err |-> "nil", v |-> v]

\* nibble n of a hexadecimal number, counted from the least significant one
NibbleAt(v, n) == IF n < Len(v) THEN v[Len(v) - n] ELSE 0

\* byte k of a hexadecimal number: (v >> 8k) & 0xff
ByteAt(v, k) == 16 * NibbleAt(v, 2 * k + 1) + NibbleAt(v, 2 * k)

\* binary.BigEndian.PutUint32
BigEndianPutUint32(v) == <<ByteAt(v, 3), ByteAt(v, 2), ByteAt(v, 1), ByteAt(v, 0)>>

\* binary.LittleEndian.PutUint32
LittleEndianPutUint32(v) == <<ByteAt(v, 0), ByteAt(v, 1), ByteAt(v, 2), ByteAt(v, 3)>>

\* a nil net.IP
NoIP == <<>>

parseIPv4(s) ==
    LET r == ParseUint(s, 16, 32)
    IN IF r.err # "nil" THEN [ip |-> NoIP, err |-> r.err]
       ELSE [ip |-> LittleEndianPutUint32(r.v), err |-> "nil"]

\* parseIPv6 leaving the loop after the first group
parseIPv6FirstGroup(s) ==
    IF Len(s) = 0 THEN [ip |-> [k \in 1..16 |-> 0], err |-> "nil", panic |-> FALSE]
    ELSE IF Len(s) < 8 THEN [ip |-> NoIP, err |-> "nil", panic |-> TRUE]
    ELSE LET r == ParseUint(SubSeq(s, 1, 8), 16, 32)
         IN IF r.err # "nil" THEN [ip |-> NoIP, err |-> r.err, panic |-> FALSE]
            ELSE [ip |-> LittleEndianPutUint32(r.v) \o [k \in 1..12 |-> 0],
                  err |-> "nil", panic |-> FALSE]

\* the loop of parseIPv6: ip holds the bytes of the groups decoded so far;
\* a rest shorter than a group makes s[0:8] panic, a fifth group makes
\* ip[16:20] panic
RECURSIVE parseIPv6Loop(_, _)
parseIPv6Loop(s, ip) ==
    IF Len(s) = 0
    THEN [ip |-> ip \o [k \in 1..(16 - Len(ip)) |-> 0], err |-> "nil", panic |-> FALSE]
    ELSE IF Len(s) < 8 THEN [ip |-> NoIP, err |-> "nil", panic |-> TRUE]
    ELSE LET r == ParseUint(SubSeq(s, 1, 8), 16, 32)
         IN IF r.err # "nil" THEN [ip |-> NoIP, err |-> r.err, panic |-> FALSE]
            ELSE IF Len(ip) >= 16 THEN [ip |-> NoIP, err |-> "nil", panic |-> TRUE]
            ELSE parseIPv6Loop(SubSeq(s, 9, Len(s)), ip \o LittleEndianPutUint32(r.v))

parseIPv6(s) == parseIPv6Loop(s, <<>>)


\* ------------------------------------------------------------------------
\* parseAddr
\* ------------------------------------------------------------------------
ipv4StrLen == 8
ipv6StrLen == 32

\* strings.Split(s, sep) for a one-character separator
RECURSIVE Split(_, _)
Split(s, sep) ==
    IF \A k \in 1..Len(s) : s[k] # sep THEN <<s>>
    ELSE LET at == CHOOSE k \in 1..Len(s) :
                      s[k] = sep /\ \A j \in 1..(k - 1) : s[j] # sep
         IN <<SubSeq(s, 1, at - 1)>> \o Split(SubSeq(s, at + 1, Len(s)), sep)

\* a nil *SockEndpoint
NoEndpoint == [IP |-> NoIP, Port |-> -1]

\* parseAddr with the address taken as IPv4 whatever its length
parseAddrAnyLength(s) ==
    LET fields == Split(s, ":")
    IN IF Len(fields) < 2 THEN [ep |-> NoEndpoint, err |-> "not enough fields"]
       ELSE LET a == parseIPv4(fields[1])
                v == ParseUint(fields[2], 16, 16)
            IN IF a.err # "nil" THEN [ep |-> NoEndpoint, err |-> a.err]
               ELSE IF v.err # "nil" THEN [ep |-> NoEndpoint, err |-> v.err]
               ELSE [ep |-> [IP |-> a.ip, Port |-> ToInt(v.v, 16)], err |-> "nil"]

parseAddr(s) ==
    LET fields == Split(s, ":")
    IN IF Len(fields) < 2 THEN [ep |-> NoEndpoint, err |-> "not enough fields"]
       ELSE LET a == CASE Len(fields[1]) = ipv4StrLen -> parseIPv4(fields[1])
                       [] Len(fields[1]) = ipv6StrLen ->
                            [ip |-> parseIPv6(fields[1]).ip, err |-> parseIPv6(fields[1]).err]
                       [] OTHER -> [ip |-> NoIP, err |-> "bad formatted string"]
                v == ParseUint(fields[2], 16, 16)
            IN IF a.err # "nil" THEN [ep |-> NoEndpoint, err |-> a.err]
               ELSE IF v.err # "nil" THEN [ep |-> NoEndpoint, err |-> v.err]
               ELSE [ep |-> [IP |-> a.ip, Port |-> ToInt(v.v, 16)], err |-> "nil"]

\* ------------------------------------------------------------------------
\* fmt.Sscanf, for the verbs and operands of parseSockTab
\* ------------------------------------------------------------------------
\* the input without its leading spaces (ss.SkipSpace)
RECURSIVE SkipSpace(_)
SkipSpace(in) == IF Len(in) > 0 /\ isSpace(Head(in)) THEN SkipSpace(Tail(in)) ELSE in

\* the length of the longest prefix of the input made of the given characters
RECURSIVE Run(_, _)
Run(in, chars) == IF Len(in) > 0 /\ Head(in) \in chars THEN 1 + Run(Tail(in), chars) ELSE 0

\* the length of the longest prefix without a space (ss.token with notSpace)
RECURSIVE RunNotSpace(_)
RunNotSpace(in) == IF Len(in) > 0 /\ ~isSpace(Head(in)) THEN 1 + RunNotSpace(Tail(in)) ELSE 0

Drop(in, n) == SubSeq(in, n + 1, Len(in))

\* the operands of the format, in order
VerbIndex == [kind |-> "verb", verb |-> "d", signed |-> TRUE, bits |-> 64, str |-> FALSE]
VerbString == [kind |-> "verb", verb |-> "s", signed |-> FALSE, bits |-> 0, str |-> TRUE]
VerbUint(verb, bits) ==
    [kind |-> "verb", verb |-> verb, signed |-> FALSE, bits |-> bits, str |-> FALSE]
FmtSpace == [kind |-> "space", verb |-> "", signed |-> FALSE, bits |-> 0, str |-> FALSE]
FmtColon == [kind |-> "lit", verb |-> ":", signed |-> FALSE, bits |-> 0, str |-> FALSE]

\* "%d: %s %s %X %X:%X %d:%X %X %d %d %d %d %X" with the widths of index,
\* localEndpoint, remoteEndpoint, State, TxQueue, RxQueue, Tr, TimerWhen,
\* Retrnsmt, UID, Timeout, Inode, Ref, Pointer
SockTabFormat ==
    <<VerbIndex, FmtColon, FmtSpace, VerbString, FmtSpace, VerbString, FmtSpace,
      VerbUint("X", 8), FmtSpace, VerbUint("X", 64), FmtColon, VerbUint("X", 64), FmtSpace,
      VerbUint("d", 8), FmtColon, VerbUint("X", 64), FmtSpace, VerbUint("X", 64), FmtSpace,
      VerbUint("d", 32), FmtSpace, VerbUint("d", 64), FmtSpace, VerbUint("d", 64), FmtSpace,
      VerbUint("d", 64), FmtSpace, VerbUint("X", 64)>>

\* one operand scanned from an input without leading spaces: the end of
\* the input is an error, a string runs to the next space, a number is its
\* sign (signed operands only) and its digits
scanToken(item, in) ==
    LET base == IF item.verb = "X" THEN 16 ELSE 10
        digits == IF base = 16 THEN hexadecimalDigits ELSE decimalDigits
        sgn == IF item.signed /\ Len(in) > 0 /\ Head(in) \in {"+", "-"} THEN 1 ELSE 0
        n == Run(Drop(in, sgn), digits)
        tok == SubSeq(in, sgn + 1, sgn + n)
        num == ParseUint(tok, base, IF item.signed THEN 64 ELSE item.bits)
        tooBig == item.signed /\ num.err = "nil" /\ ~NumLeq(num.v, MaxInt64Dec)
                             /\ ~(Head(in) = "-" /\ num.v = MinInt64Dec)
    IN IF Len(in) = 0 THEN [err |-> "unexpected EOF", val |-> <<>>, rest |-> in]
       ELSE IF item.str
       THEN [err |-> "nil", val |-> SubSeq(in, 1, RunNotSpace(in)),
             rest |-> Drop(in, RunNotSpace(in))]
       ELSE IF sgn = 1 /\ Len(in) = 1 THEN [err |-> "unexpected EOF", val |-> <<>>, rest |-> in]
       ELSE IF n = 0 THEN [err |-> "expected integer", val |-> <<>>, rest |-> in]
       ELSE IF num.err # "nil" \/ tooBig
       THEN [err |-> "integer overflow", val |-> <<>>, rest |-> in]
       ELSE [err |-> "nil", val |-> num.v, rest |-> Drop(in, sgn + n)]

\* one operand scanned from the input (ss.scanOne), leading spaces skipped
scanOne(item, input) == scanToken(item, SkipSpace(input))

\* the format applied item by item (ss.doScanf); input left over after the
\* last item is not looked at
RECURSIVE doScanf(_, _, _)
doScanf(format, input, vals) ==
    IF Len(format) = 0 THEN [err |-> "nil", vals |-> vals]
    ELSE LET item == Head(format)
         IN CASE item.kind = "space" ->
                    IF Len(input) > 0 /\ ~isSpace(Head(input))
                    THEN [err |-> "expected space in input to match format", vals |-> <<>>]
                    ELSE doScanf(Tail(format), SkipSpace(input), vals)
              [] item.kind = "lit" ->
                    IF Len(input) = 0 THEN [err |-> "unexpected EOF", vals |-> <<>>]
                    ELSE IF Head(input) # item.verb
                    THEN [err |-> "input does not match format", vals |-> <<>>]
                    ELSE doScanf(Tail(format), Tail(input), vals)
              [] item.kind = "verb" ->
                    LET r == scanOne(item, input)
                    IN IF r.err # "nil" THEN [err |-> r.err, vals |-> <<>>]
                       ELSE doScanf(Tail(format), r.rest, Append(vals, r.val))

\* the format applied as Sscanln would: input left over is an error
SscanfWholeLine(line, format) ==
    IF Len(line) > 0 /\ ~isSpace(line[Len(line)]) /\ doScanf(format, line, <<>>).err = "nil"
       /\ doScanf(format \o <<FmtSpace, VerbString>>, line, <<>>).err = "nil"
    THEN [err |-> "expected newline", vals |-> <<>>]
    ELSE doScanf(format, line, <<>>)

Sscanf(line, format) == doScanf(format, line, <<>>)

\* ------------------------------------------------------------------------
\* parseSockTab over the text of a table
\* ------------------------------------------------------------------------
\* a SockTabEntry zero value
NoTextEntry ==
    [Transport |-> "", LocalEndpoint |-> NoEndpoint, RemoteEndpoint |-> NoEndpoint,
     State |-> 0, TxQueue |-> <<>>, RxQueue |-> <<>>, Tr |-> 0, TimerWhen |-> <<>>,
     Retrnsmt |-> <<>>, UID |-> <<>>, Timeout |-> <<>>, Inode |-> <<>>, Ref |-> <<>>,
     Pointer |-> <<>>, Process |-> NoProcess, NetNS |-> ""]

\* the body of the loop of parseSockTab after Sscanf has returned r, up to
\* the filter: parseAddr of the local and of the remote endpoint
decodeScanned(r, transport) ==
    LET l == parseAddr(r.vals[2])
        m == parseAddr(r.vals[3])
    IN IF r.err # "nil" THEN [err |-> r.err, entry |-> NoTextEntry]
       ELSE IF l.err # "nil" THEN [err |-> l.err, entry |-> NoTextEntry]
       ELSE IF m.err # "nil" THEN [err |-> m.err, entry |-> NoTextEntry]
       ELSE [err |-> "nil",
             entry |-> [Transport |-> transport,
                        LocalEndpoint |-> l.ep, RemoteEndpoint |-> m.ep,
                        State |-> ToInt(r.vals[4], 16),
                        TxQueue |-> r.vals[5], RxQueue |-> r.vals[6],
                        Tr |-> ToInt(r.vals[7], 10),
                        TimerWhen |-> r.vals[8], Retrnsmt |-> r.vals[9],
                        UID |-> r.vals[10], Timeout |-> r.vals[11],
                        Inode |-> r.vals[12], Ref |-> r.vals[13],
                        Pointer |-> r.vals[14],
                        Process |-> NoProcess, NetNS |-> ""]]

\* the body of the loop of parseSockTab up to the filter
decodeText(line, transport) == decodeScanned(Sscanf(line, SockTabFormat), transport)

\* the loop of parseSockTab with a line that fails skipped
RECURSIVE scanLinesSkipBad(_, _, _, _)
scanLinesSkipBad(lines, accept, transport, sockTab) ==
    IF Len(lines) = 0 THEN [tabs |-> sockTab, err |-> "nil"]
    ELSE LET d == decodeText(Head(lines), transport)
         IN scanLinesSkipBad(Tail(lines), accept, transport,
                             IF d.err = "nil" /\ Accept(accept, d.entry)
                             THEN Append(sockTab, d.entry)
                             ELSE sockTab)

\* the loop of parseSockTab: a line that fails returns nil and the error
RECURSIVE scanLines(_, _, _, _)

\* one iteration of the loop, with d the decoded line and rest the lines
\* after it
scanLine(d, rest, accept, transport, sockTab) ==
    IF d.err # "nil" THEN [tabs |-> <<>>, err |-> d.err]
    ELSE scanLines(rest, accept, transport,
                   IF Accept(accept, d.entry) THEN Append(sockTab, d.entry) ELSE sockTab)

scanLines(lines, accept, transport, sockTab) ==
    IF Len(lines) = 0 THEN [tabs |-> sockTab, err |-> "nil"]
    ELSE scanLine(decodeText(Head(lines), transport), Tail(lines), accept, transport, sockTab)

\* parseSockTab with the first line decoded like the others
parseSockTabTextNoHeader(lines, accept, transport) ==
    scanLines(lines, accept, transport, <<>>)

\* parseSockTab: the first Scan drops the first line, if there is one
parseSockTabText(lines, accept, transport) ==
    scanLines(IF Len(lines) = 0 THEN <<>> ELSE Tail(lines), accept, transport, <<>>)

\* ------------------------------------------------------------------------
\* parseSocktab: the parser that splits a line into its fields
\* ------------------------------------------------------------------------
\* strings.Fields(s): the runs of characters that are not spaces
RECURSIVE Fields(_)
Fields(s) ==
    LET t == SkipSpace(s)
    IN IF Len(t) = 0 THEN <<>>
       ELSE <<SubSeq(t, 1, RunNotSpace(t))>> \o Fields(Drop(t, RunNotSpace(t)))

\* the fields of a line parseSocktab asks for
minSocktabFields == 12

\* a zero value of the entry of parseSocktab
NoSocktabEntry ==
    [Proto |-> "", LocalAddr |-> NoEndpoint, RemoteAddr |-> NoEndpoint,
     State |-> 0, UID |-> <<>>, ino |-> <<>>]

\* the body of the loop of parseSocktab up to the filter, given the fields
\* of the line: parseAddr of fields[1] and fields[2], the state from
\* fields[3], the uid from fields[7], and fields[9] kept as text
socktabEntry(fields, proto) ==
    LET l == parseAddr(fields[2])
        m == parseAddr(fields[3])
        st == ParseUint(fields[4], 16, 8)
        u == ParseUint(fields[8], 10, 32)
    IN IF Len(fields) < minSocktabFields
       THEN [err |-> "not enough fields", entry |-> NoSocktabEntry]
       ELSE IF l.err # "nil" THEN [err |-> l.err, entry |-> NoSocktabEntry]
       ELSE IF m.err # "nil" THEN [err |-> m.err, entry |-> NoSocktabEntry]
       ELSE IF st.err # "nil" THEN [err |-> st.err, entry |-> NoSocktabEntry]
       ELSE IF u.err # "nil" THEN [err |-> u.err, entry |-> NoSocktabEntry]
       ELSE [err |-> "nil",
             entry |-> [Proto |-> proto, LocalAddr |-> l.ep, RemoteAddr |-> m.ep,
                        State |-> ToInt(st.v, 16), UID |-> u.v, ino |-> fields[10]]]

\* the loop of parseSocktab: a line with a '#' is passed over, a line that
\* fails returns nil and the error
RECURSIVE socktabLines(_, _, _, _)

\* one iteration of the loop for a line without '#', with d its decoded
\* fields and rest the lines after it
socktabLine(d, rest, accept, proto, tab) ==
    IF d.err # "nil" THEN [tabs |-> <<>>, err |-> d.err]
    ELSE socktabLines(rest, accept, proto,
                      IF Accept(accept, d.entry) THEN Append(tab, d.entry) ELSE tab)

socktabLines(lines, accept, proto, tab) ==
    IF Len(lines) = 0 THEN [tabs |-> tab, err |-> "nil"]
    ELSE IF \E i \in 1..Len(Head(lines)) : Head(lines)[i] = "#"
    THEN socktabLines(Tail(lines), accept, proto, tab)
    ELSE socktabLine(socktabEntry(Fields(Head(lines)), proto), Tail(lines), accept, proto, tab)

\* parseSocktab: the first Scan drops the title, if there is one
parseSocktab(lines, accept, proto) ==
    socktabLines(IF Len(lines) = 0 THEN <<>> ELSE Tail(lines), accept, proto, <<>>)

\* the names of the socket states
skStates ==
    <<"UNKNOWN", "ESTABLISHED", "SYN_SENT", "SYN_RECV", "FIN_WAIT1", "FIN_WAIT2",
      "TIME_WAIT", "CLOSE", "CLOSE_WAIT", "LAST_ACK", "LISTEN", "CLOSING">>

\* SkState.String: skStates[s], an index past the array panics
SkStateString(st) ==
    IF st + 1 \in DOMAIN skStates
    THEN [panic |-> FALSE, str |-> skStates[st + 1]]
    ELSE [panic |-> TRUE, str |-> ""]

\* ------------------------------------------------------------------------
\* Inputs of the decoding functions
\* ------------------------------------------------------------------------
\* data lines of a table a call may hold at most
MaxLines == 2
\* length of the longest status field handed to getProcName
MaxNameLen == 5

\* byte pairs and 8-digit groups the address inputs are made of
BytePairs == {<<"0", "0">>, <<"0", "1">>, <<"7", "F">>, <<"f", "e">>}
Groups ==
    {<<"3", "4", "1", "2", "8", "0", "F", "E">>,
     <<"1", "1", "1", "0", "7", "8", "5", "6">>,
     <<"F", "F", "0", "1", "5", "F", "E", "6">>,
     <<"C", "6", "5", "8", "4", "7", "F", "E">>,
     <<"g", "i", "b", "b", "e", "r", "i", "s">>}

IPv4Inputs ==
    {a \o b \o c \o d : a \in BytePairs, b \in BytePairs, c \in BytePairs, d \in BytePairs}
    \cup {<<"g", "i", "b", "b", "e", "r", "i", "s", "h">>, <<"g", "i", "b", "b", "e", "r", "i", "s">>, <<"0", "1", "0", "0", "0", "0", "7", "G">>, <<>>, <<"+", "1", "0", "0", "0", "0", "7", "F">>, <<"0", "x", "0", "0", "0", "0", "7", "F">>}

IPv6Inputs ==
    {a \o b \o c \o d : a \in Groups, b \in Groups, c \in Groups, d \in Groups}
    \cup {<<"g", "i", "b", "b", "e", "r", "i", "s", "h">>, <<>>}

\* the address part and what follows it in the inputs of parseAddr
AddrParts ==
    {<<"0", "1", "0", "0", "0", "0", "7", "F">>, <<"0", "F", "0", "0", "0", "0", "0", "A">>, <<"0", "0", "0", "0", "0", "0", "0", "0">>, <<"f", "f", "f", "f", "f", "f", "f", "f">>,
     <<"3", "4", "1", "2", "8", "0", "F", "E", "1", "1", "1", "0", "7", "8", "5", "6", "F", "F", "0", "1", "5", "F", "E", "6", "C", "6", "5", "8", "4", "7", "F", "E">>, <<"0", "0", "0", "0", "0", "0", "0", "0", "0", "0", "0", "0", "0", "0", "0", "0", "F", "F", "F", "F", "0", "0", "0", "0", "0", "1", "0", "0", "0", "0", "7", "F">>,
     <<"3", "4", "1", "2", "8", "0", "F", "E", "1", "1", "1", "0", "7", "8", "5", "6", "F", "F", "0", "1", "5", "F", "E", "6", "g", "i", "b", "b", "e", "r", "i", "s">>,
     <<"0", "1", "0", "0", "0", "0", "7">>, <<"0", "0", "0", "0", "0", "0", "0", "0", "0">>, <<"g", "i", "b", "b", "e", "r", "i", "s">>, <<"g", "i", "b", "b", "e", "r", "i", "s", "h">>, <<>>}
PortParts ==
    {<<>>, <<":", "0", "0", "3", "5">>, <<":", "1", "3", "A", "D">>, <<":", "F", "F", "F", "F">>, <<":", "f", "f", "f", "f">>, <<":", "F", "F", "F", "F", "1">>, <<":">>, <<":", "0", "0", "G", "0">>, <<":", "0">>,
     <<":", "-", "1">>, <<":", "0", "0", "3", "5", ":", "9", "9">>}
AddrInputs == {a \o q : a \in AddrParts, q \in PortParts}

\* the pieces of a table line
HeaderText ==
    <<" ", " ", "s", "l", " ", " ", "l", "o", "c", "a", "l", "_", "a", "d", "d", "r", "e", "s", "s", " ", "r", "e", "m", "_", "a", "d", "d", "r", "e", "s", "s", " ", " ", " ", "s", "t", " ", "t", "x", "_", "q", "u", "e", "u", "e", " ", "r", "x", "_", "q", "u", "e", "u", "e", " ", "t", "r", " ", "t", "m", "-", ">", "w", "h", "e", "n", " ", "r", "e", "t", "r", "n", "s", "m", "t", " ", " ", " ", "u", "i", "d", " ", " ", "t", "i", "m", "e", "o", "u", "t", " ", "i", "n", "o", "d", "e">>
QueueFields == <<" ", "0", "0", "0", "0", "0", "0", "0", "0", ":", "0", "0", "0", "0", "0", "0", "0", "0", " ", "0", "0", ":", "0", "0", "0", "0", "0", "0", "0", "0", " ", "0", "0", "0", "0", "0", "0", "0", "0", " ">>
SockLine(lead, sl, local, remote, st, uid, inode, pointer) ==
    lead \o sl \o <<" ">> \o local \o <<" ">> \o remote \o <<" ">> \o st \o QueueFields
         \o uid \o <<" ", " ", " ", " ", " ", " ", " ", " ", "0", " ">> \o inode \o <<" ", "1", " ">> \o pointer

\* lines that carry every field up to the memory address
BaseLines ==
    {SockLine(<<" ", " ", " ">>, <<"0", ":">>, <<"0", "1", "0", "0", "0", "0", "7", "F", ":", "1", "3", "A", "D">>, <<"0", "0", "0", "0", "0", "0", "0", "0", ":", "0", "0", "0", "0">>, <<"0", "A">>, <<"0">>, <<"1", "0", "7", "8", "6", "9">>,
              <<"f", "f", "f", "f", "8", "8", "0", "2", "2", "c", "1", "e", "7", "0", "0", "0">>),
     SockLine(<<" ", " ", " ">>, <<"1", ":">>, <<"0", "0", "0", "0", "0", "0", "0", "0", ":", "0", "0", "1", "6">>, <<"0", "0", "0", "0", "0", "0", "0", "0", ":", "0", "0", "0", "0">>, <<"0", "1">>, <<"1">>, <<"3", "5", "1", "5", "2", "2">>,
              <<"0", "0", "0", "0", "0", "0", "0", "0", "0", "0", "0", "0", "0", "0", "0", "0">>),
     SockLine(<<"\t", "\t">>, <<"1", "7", ":">>, <<"0", "1", "0", "0", "0", "0", "7", "F", ":", "0", "0", "1", "1">>, <<"0", "0", "0", "0", "0", "0", "0", "0", ":", "0", "0", "0", "0">>, <<"0", "7">>, <<"0">>, <<"4", "2", "2", "9", "8", "5", "6", "1", "0", "3">>,
              <<"0", "0", "0", "0", "0", "0", "0", "0", "6", "5", "1", "d", "4", "7", "6", "d">>),
     SockLine(<<>>, <<"2", ":">>, <<"0", "0", "0", "0", "0", "0", "0", "0", "0", "0", "0", "0", "0", "0", "0", "0", "F", "F", "F", "F", "0", "0", "0", "0", "0", "1", "0", "0", "0", "0", "7", "F", ":", "1", "F", "9", "0">>,
              <<"0", "0", "0", "0", "0", "0", "0", "0", "0", "0", "0", "0", "0", "0", "0", "0", "0", "0", "0", "0", "0", "0", "0", "0", "0", "0", "0", "0", "0", "0", "0", "0", ":", "0", "0", "0", "0">>, <<"0", "A">>, <<"0">>, <<"7", "8", "4", "0", "4", "5">>,
              <<"0", "0", "0", "0", "0", "0", "0", "0", "0", "0", "0", "0", "0", "0", "0", "0">>),
     SockLine(<<" ", " ", " ">>, <<"3", ":">>, <<"0", "1", "0", "0", "0", "0", "7", "F", ":", "1", "3", "A", "D">>, <<"0", "F", "0", "0", "0", "0", "0", "A", ":", "0", "0", "3", "5">>, <<"0", "C">>, <<"0">>, <<"1", "0", "7", "8", "7", "0">>,
              <<"f", "f", "f", "f", "8", "8", "0", "2", "2", "c", "1", "e", "7", "0", "0", "0">>)}

\* the fields a table may add after the memory address
TrailingFields == {<<>>, <<" ", "0">>, <<" ", "1", "0", "0", " ", "0", " ", "0", " ", "1", "0", " ", "0">>}

\* lines that do not have the format of a table line
BadLines ==
    {<<"#", " ", "t", "e", "s", "t">>, <<>>,
     <<" ", " ", " ", "0", ":", " ", "0", "1", "0", "0", "0", "0", "7", "F", ":", "1", "3", "A", "D", " ", "0", "0", "0", "0", "0", "0", "0", "0", ":", "0", "0", "0", "0", " ", "0", "A", " ", "0", "0", "0", "0", "0", "0", "0", "0", ":", "0", "0", "0", "0", "0", "0", "0", "0", " ", "0", "0", ":", "0", "0", "0", "0", "0", "0", "0", "0", " ", "0", "0", "0", "0", "0", "0", "0", "0", " ", " ", " ", " ", " ", "0", " ", " ", " ", " ", " ", " ", " ", " ", "0", " ", "1", "0", "7", "8", "6", "9", " ", "1", " ">>,
     SockLine(<<" ", " ", " ">>, <<"0", ":">>, <<"0", "1", "0", "0", "0", "0", "7", ":", "1", "3", "A", "D">>, <<"0", "0", "0", "0", "0", "0", "0", "0", ":", "0", "0", "0", "0">>, <<"0", "A">>, <<"0">>, <<"1", "0", "7", "8", "6", "9">>,
              <<"f", "f", "f", "f", "8", "8", "0", "2", "2", "c", "1", "e", "7", "0", "0", "0">>),
     SockLine(<<" ", " ", " ">>, <<"0", ":">>, <<"0", "1", "0", "0", "0", "0", "7", "F", ":", "1", "3", "A", "D">>, <<"0", "0", "0", "0", "0", "0", "0", "0", "0", ":", "0", "0", "0", "0">>, <<"0", "A">>, <<"0">>, <<"1", "0", "7", "8", "6", "9">>,
              <<"f", "f", "f", "f", "8", "8", "0", "2", "2", "c", "1", "e", "7", "0", "0", "0">>),
     SockLine(<<>>, <<"0", ":">>, <<"0", "1", "0", "0", "0", "0", "7", "F", ":", "1", "3", "A", "D">>, <<"0", "0", "0", "0", "0", "0", "0", "0", ":", "0", "0", "0", "0">>, <<"0", "G">>, <<"0">>, <<"1", "0", "7", "8", "6", "9">>,
              <<"f", "f", "f", "f", "8", "8", "0", "2", "2", "c", "1", "e", "7", "0", "0", "0">>),
     SockLine(<<>>, <<"0", ":">>, <<"0", "1", "0", "0", "0", "0", "7", "F", ":", "1", "3", "A", "D">>, <<"0", "0", "0", "0", "0", "0", "0", "0", ":", "0", "0", "0", "0">>, <<"1", "F", "F">>, <<"0">>, <<"1", "0", "7", "8", "6", "9">>,
              <<"f", "f", "f", "f", "8", "8", "0", "2", "2", "c", "1", "e", "7", "0", "0", "0">>),
     SockLine(<<>>, <<"0", ":">>, <<"0", "1", "0", "0", "0", "0", "7", "F", ":", "1", "3", "A", "D">>, <<"0", "0", "0", "0", "0", "0", "0", "0", ":", "0", "0", "0", "0">>, <<"0", "A">>, <<"-", "1">>, <<"1", "0", "7", "8", "6", "9">>,
              <<"f", "f", "f", "f", "8", "8", "0", "2", "2", "c", "1", "e", "7", "0", "0", "0">>),
     SockLine(<<>>, <<"0", ":">>, <<"0", "1", "0", "0", "0", "0", "7", "F", ":", "F", "F", "F", "F", "1">>, <<"0", "0", "0", "0", "0", "0", "0", "0", ":", "0", "0", "0", "0">>, <<"0", "A">>, <<"0">>, <<"1", "0", "7", "8", "6", "9">>,
              <<"f", "f", "f", "f", "8", "8", "0", "2", "2", "c", "1", "e", "7", "0", "0", "0">>),
     SockLine(<<>>, <<"0">>, <<"0", "1", "0", "0", "0", "0", "7", "F", ":", "1", "3", "A", "D">>, <<"0", "0", "0", "0", "0", "0", "0", "0", ":", "0", "0", "0", "0">>, <<"0", "A">>, <<"0">>, <<"1", "0", "7", "8", "6", "9">>,
              <<"f", "f", "f", "f", "8", "8", "0", "2", "2", "c", "1", "e", "7", "0", "0", "0">>)}

TextLines == {b \o t : b \in BaseLines, t \in TrailingFields} \cup BadLines

\* the tables: no line at all, or a header and up to MaxLines lines
TextTables ==
    {<<>>} \cup {<<HeaderText>> \o ls : ls \in SeqsUpTo(TextLines, MaxLines)}

\* state codes of a table line: two hex digits
StateCodes ==
    {<<a, b>> : a \in {"0", "1", "F"},
                b \in {"0", "1", "2", "3", "4", "5", "6", "7", "8", "9",
                       "A", "B", "C", "D", "E", "F"}}

\* a well-formed line with the given state code
StateLine(st) ==
    SockLine(<<" ", " ", " ">>, <<"0", ":">>, <<"0", "1", "0", "0", "0", "0", "7", "F", ":", "1", "3", "A", "D">>, <<"0", "0", "0", "0", "0", "0", "0", "0", ":", "0", "0", "0", "0">>, st, <<"0">>, <<"1", "0", "7", "8", "6", "9">>,
             <<"f", "f", "f", "f", "8", "8", "0", "2", "2", "c", "1", "e", "7", "0", "0", "0">>)

\* status fields: every string of up to MaxNameLen of these characters
NameInputs == SeqsUpTo({"(", ")", "a", " "}, MaxNameLen)

\* ------------------------------------------------------------------------
\* Package processes: getProcName and getProcess
\* ------------------------------------------------------------------------
\* getProcName of package processes: the first "(" and the first ")" from
\* there on; positions are 1-based here, so Go's start is i1 - 1 and Go's
\* end is e1 - 1
processesGetProcName(s) ==
    LET i1 == IndexOf(s, "(")
        e1 == IndexOf(SubSeq(s, i1, Len(s)), ")")
    IN IF i1 = 0 THEN <<>>
       ELSE IF e1 - 1 < 1 THEN <<>>
       ELSE SubSeq(s, i1 + 1, i1 + e1 - 2)

\* getProcess with a cache that is not keyed by the PID: whatever Process
\* is cached is returned
processesGetProcessAnyCached(pid, cache, stat) ==
    IF cache # {}
    THEN [p |-> CHOOSE c \in cache : TRUE, err |-> FALSE, cache |-> cache,
          panic |-> FALSE]
    ELSE IF ~stat.readable
    THEN [p |-> [Pid |-> pid, Name |-> <<>>], err |-> TRUE, cache |-> cache,
          panic |-> FALSE]
    ELSE LET z == SplitN(stat.text, 3)
             process == [Pid |-> pid, Name |-> processesGetProcName(z[2])]
         IN IF Len(z) < 2
            THEN [p |-> [Pid |-> pid, Name |-> <<>>], err |-> FALSE, cache |-> cache,
                  panic |-> TRUE]
            ELSE [p |-> process, err |-> FALSE, cache |-> cache \cup {process},
                  panic |-> FALSE]

\* getProcess of package processes: the cached Process of pid if there is
\* one; a Process with only the Pid, and an error, when the status file
\* cannot be read; else the Process with the name, which is cached. z[1]
\* is indexed whatever the length of z: a text without a space panics
processesGetProcess(pid, cache, stat) ==
    IF \E c \in cache : c.Pid = pid
    THEN [p |-> CHOOSE c \in cache : c.Pid = pid, err |-> FALSE, cache |-> cache,
          panic |-> FALSE]
    ELSE IF ~stat.readable
    THEN [p |-> [Pid |-> pid, Name |-> <<>>], err |-> TRUE, cache |-> cache,
          panic |-> FALSE]
    ELSE LET z == SplitN(stat.text, 3)
             process == [Pid |-> pid, Name |-> processesGetProcName(z[2])]
         IN IF Len(z) < 2
            THEN [p |-> [Pid |-> pid, Name |-> <<>>], err |-> FALSE, cache |-> cache,
                  panic |-> TRUE]
            ELSE [p |-> process, err |-> FALSE, cache |-> cache \cup {process},
                  panic |-> FALSE]

\* the text of a status file of PID 12 with the given second field
StatLine(field) == <<"1", "2", " ">> \o field \o <<" ", "S", " ", "0">>

\* the texts a readable status file may hold: nothing, a PID alone, a
\* second field with nothing or with further fields after it
StatInputs ==
    {<<>>, <<"1", "2">>, <<"(", "a", ")">>}
    \cup {<<"1", "2", " ">> \o f : f \in NameInputs}
    \cup {StatLine(f) : f \in NameInputs \cup {<<"(", "a", "(", "a", ")", "a", ")">>}}

\* ------------------------------------------------------------------------
\* GetProcessFDs of package processes
\* ------------------------------------------------------------------------
\* strconv.Atoi for the names of directory entries: an optional sign and
\* decimal digits; the value is small
Atoi(name) ==
    LET sgn == IF Len(name) > 0 /\ Head(name) \in {"+", "-"} THEN 1 ELSE 0
        r == ParseUint(Drop(name, sgn), 10, 32)
    IN IF r.err # "nil" THEN [err |-> TRUE, n |-> 0]
       ELSE [err |-> FALSE,
             n |-> IF sgn = 1 /\ Head(name) = "-" THEN 0 - ToInt(r.v, 10) ELSE ToInt(r.v, 10)]

\* a link whose target starts as a socket link and holds no decimal inode
SockLinkNoInode == [prefix |-> sockPrefix, ino |-> -1]

\* an entry of the process root: its name, whether its fd directory can
\* be listed, the link targets in fd by file name, and its status file
RootEntry(name, fdok, fd, stat) == [name |-> name, fdok |-> fdok, fd |-> fd, stat |-> stat]

\* the process roots: the entries 1, 2 and self (a link to the directory
\* of another process), or a root that cannot be read
FdTrees ==
    {[ok |-> FALSE, entries |-> <<>>]}
    \cup {[ok |-> TRUE,
           entries |-> <<RootEntry(<<"1">>, TRUE, fd1, st1),
                         RootEntry(<<"2">>, ok2, fd2, st2),
                         RootEntry(<<"s", "e", "l", "f">>, TRUE, <<SockLink(55555)>>, Stat(<<"s">>))>>] :
            fd1 \in {<<SockLink(12345)>>, <<SockLink(12345), SockLink(67890)>>,
                     <<NetLink(4001), SockLinkNoInode, SockLink(12345)>>},
            st1 \in {Stat(<<"a">>), NoStat},
            ok2 \in BOOLEAN,
            fd2 \in {<<SockLink(67890)>>, <<SockLink(12345)>>, <<>>},
            st2 \in {Stat(<<"b">>), NoStat}}

\* a goroutine of GetProcessFDs that has not run yet
NewFdWorker == [pc |-> "check", pid |-> 0, rest |-> <<>>, got |-> <<>>]

InitFd == NetstatIdle /\ FnIdle /\ FdIdle /\ NsIdle

\* GetProcessFDs up to the launch of the goroutines: the root is read, and
\* a failure returns nil and the error
GetProcessFDs(tree) ==
    /\ fdPc = "idle"
    /\ fdTree' = tree
    /\ processFDs' = {}
    /\ fdProcessCache' = {}
    /\ IF tree.ok
       THEN /\ fdPc' = "wait"
            /\ fdWorkers' = [k \in 1..Len(tree.entries) |-> NewFdWorker]
            /\ procErr' = "nil"
       ELSE /\ fdPc' = "returned"
            /\ fdWorkers' = <<>>
            /\ procErr' = "read error"
    /\ UNCHANGED <<fdCtxDone, netstatVars, fnVars, nsVars>>

\* the caller cancels the context
FdCancel ==
    /\ fdPc = "wait"
    /\ ~fdCtxDone
    /\ fdCtxDone' = TRUE
    /\ UNCHANGED <<fdPc, fdTree, fdWorkers, processFDs, fdProcessCache, procErr,
                   netstatVars, fnVars, nsVars>>

\* the goroutine of entry k with every name taken as a PID
FdWorkerCheckNoAtoi(k) ==
    /\ fdPc = "wait"
    /\ k \in 1..Len(fdWorkers)
    /\ fdWorkers[k].pc = "check"
    /\ LET e == fdTree.entries[k]
           a == Atoi(e.name)
       IN fdWorkers' = [fdWorkers EXCEPT ![k] =
             IF fdCtxDone \/ ~e.fdok \/ Len(e.fd) = 0
             THEN [@ EXCEPT !.pc = "done"]
             ELSE [@ EXCEPT !.pc = "iter", !.pid = a.n, !.rest = e.fd]]
    /\ UNCHANGED <<fdPc, fdTree, fdCtxDone, processFDs, fdProcessCache, procErr,
                   netstatVars, fnVars, nsVars>>

\* the goroutine of entry k up to the listing of the fd directory: it
\* returns when the context is cancelled, when the name is not a number
\* and when the directory cannot be listed
FdWorkerCheck(k) ==
    /\ fdPc = "wait"
    /\ k \in 1..Len(fdWorkers)
    /\ fdWorkers[k].pc = "check"
    /\ LET e == fdTree.entries[k]
           a == Atoi(e.name)
       IN fdWorkers' = [fdWorkers EXCEPT ![k] =
             IF fdCtxDone \/ a.err \/ ~e.fdok \/ Len(e.fd) = 0
             THEN [@ EXCEPT !.pc = "done"]
             ELSE [@ EXCEPT !.pc = "iter", !.pid = a.n, !.rest = e.fd]]
    /\ UNCHANGED <<fdPc, fdTree, fdCtxDone, processFDs, fdProcessCache, procErr,
                   netstatVars, fnVars, nsVars>>

\* one iteration of the loop over the fd entries, with the link dropped
\* when getProcess fails
FdWorkerEntrySkipOnError(k) ==
    /\ fdPc = "wait"
    /\ k \in 1..Len(fdWorkers)
    /\ fdWorkers[k].pc = "iter"
    /\ LET me == fdWorkers[k]
           link == Head(me.rest)
           g == processesGetProcess(me.pid, fdProcessCache, fdTree.entries[k].stat)
           next == IF Len(me.rest) = 1 THEN "done" ELSE "iter"
       IN IF link.prefix # sockPrefix \/ link.ino < 0
          THEN /\ fdWorkers' = [fdWorkers EXCEPT ![k] = [@ EXCEPT !.pc = next, !.rest = Tail(@)]]
               /\ UNCHANGED <<processFDs, fdProcessCache>>
          ELSE /\ fdWorkers' = [fdWorkers EXCEPT ![k] =
                                  [@ EXCEPT !.pc = next, !.rest = Tail(@), !.got = <<g>>]]
               /\ processFDs' = IF g.err THEN processFDs
                                ELSE {x \in processFDs : x.fd # link.ino}
                                     \cup {[fd |-> link.ino, process |-> g.p]}
               /\ fdProcessCache' = g.cache
    /\ UNCHANGED <<fdPc, fdTree, fdCtxDone, procErr, netstatVars, fnVars, nsVars>>

\* one iteration of the loop over the fd entries: a link that is not a
\* socket or whose inode does not parse is skipped; else getProcess is called, a failure of it makes a
\* Process with only the Pid, and the map entry of the inode is written; an
\* index out of range in getProcess ends the program
FdWorkerEntry(k) ==
    /\ fdPc = "wait"
    /\ k \in 1..Len(fdWorkers)
    /\ fdWorkers[k].pc = "iter"
    /\ LET me == fdWorkers[k]
           link == Head(me.rest)
           g == processesGetProcess(me.pid, fdProcessCache, fdTree.entries[k].stat)
           process == IF g.err THEN [Pid |-> me.pid, Name |-> <<>>] ELSE g.p
           next == IF Len(me.rest) = 1 THEN "done" ELSE "iter"
       IN IF link.prefix # sockPrefix \/ link.ino < 0
          THEN /\ fdWorkers' = [fdWorkers EXCEPT ![k] = [@ EXCEPT !.pc = next, !.rest = Tail(@)]]
               /\ UNCHANGED <<fdPc, processFDs, fdProcessCache>>
          ELSE IF g.panic
          THEN /\ fdPc' = "panicked"
               /\ UNCHANGED <<fdWorkers, processFDs, fdProcessCache>>
          ELSE /\ fdWorkers' = [fdWorkers EXCEPT ![k] =
                                  [@ EXCEPT !.pc = next, !.rest = Tail(@), !.got = <<g>>]]
               /\ processFDs' = {x \in processFDs : x.fd # link.ino}
                                \cup {[fd |-> link.ino, process |-> process]}
               /\ fdProcessCache' = g.cache
               /\ UNCHANGED fdPc
    /\ UNCHANGED <<fdTree, fdCtxDone, procErr, netstatVars, fnVars, nsVars>>

\* wg.Wait(); return processFDs, procErr
\* FdWait without wg.Wait(): the return does not wait for the goroutines
FdWaitNoWait ==
    /\ fdPc = "wait"
    /\ fdPc' = "returned"
    /\ UNCHANGED <<fdTree, fdCtxDone, fdWorkers, processFDs, fdProcessCache, procErr,
                   netstatVars, fnVars, nsVars>>

\* FdWait that returns ctx.Err() when the context is cancelled
FdWaitCtxErr ==
    /\ fdPc = "wait"
    /\ \A k \in 1..Len(fdWorkers) : fdWorkers[k].pc = "done"
    /\ fdPc' = "returned"
    /\ procErr' = IF fdCtxDone THEN "context canceled" ELSE procErr
    /\ UNCHANGED <<fdTree, fdCtxDone, fdWorkers, processFDs, fdProcessCache,
                   netstatVars, fnVars, nsVars>>

FdWait ==
    /\ fdPc = "wait"
    /\ \A k \in 1..Len(fdWorkers) : fdWorkers[k].pc = "done"
    /\ fdPc' = "returned"
    /\ UNCHANGED <<fdTree, fdCtxDone, fdWorkers, processFDs, fdProcessCache, procErr,
                   netstatVars, fnVars, nsVars>>

\* the number of entries a process root has at most
MaxEntries == 3

NextFd ==
    \/ \E tree \in FdTrees : GetProcessFDs(tree)
    \/ FdCancel
    \/ \E k \in 1..MaxEntries : FdWorkerCheck(k)
    \/ \E k \in 1..MaxEntries : FdWorkerEntry(k)
    \/ FdWait

SpecFd == InitFd /\ [][NextFd]_vars

\* ------------------------------------------------------------------------
\* The namespace resolver (package netns) over a registry and a process root
\* ------------------------------------------------------------------------
\* an entry of the registry directory: its name, whether it is a
\* directory, whether os.Open of it succeeds, and the inode os.Stat and
\* Fstat report for it
RegEntry(name, dir, openable, ino) ==
    [name |-> name, dir |-> dir, openable |-> openable, ino |-> ino]

\* the registries: a path that does not exist, an empty directory, and the
\* directory of the tests (two handles and a directory) where the first
\* handle may not be openable and the second may be the handle of a
\* namespace no process lives in
Registries ==
    {[exists |-> FALSE, entries |-> <<>>], [exists |-> TRUE, entries |-> <<>>]}
    \cup {[exists |-> TRUE,
           entries |-> <<RegEntry("netns1", FALSE, o1, 1),
                         RegEntry("netns2", FALSE, TRUE, i2),
                         RegEntry("not_netns", TRUE, TRUE, 9)>>] :
            o1 \in BOOLEAN, i2 \in {2, 5}}

\* an entry of the process root: its name, whether it is a directory,
\* whether ns/net under it can be read, and the target of that link
NsProcEntry(name, dir, linkok, target) ==
    [name |-> name, dir |-> dir, linkok |-> linkok, target |-> target]

\* the process roots: a path that cannot be read, and the root of the
\* tests (1, 2 and 3, each in the namespace of its number) where 2 may
\* live in the namespace of 1 and the link of 3 may be unreadable, with a
\* numeric plain file and the directory self next to them
NsProcRoots ==
    {[ok |-> FALSE, entries |-> <<>>]}
    \cup {[ok |-> TRUE,
           entries |-> <<NsProcEntry(<<"1">>, TRUE, TRUE, NetLink(1)),
                         NsProcEntry(<<"2">>, TRUE, TRUE, NetLink(l2)),
                         NsProcEntry(<<"3">>, TRUE, ok3, NetLink(3)),
                         NsProcEntry(<<"9">>, FALSE, TRUE, NetLink(1)),
                         NsProcEntry(<<"s", "e", "l", "f">>, TRUE, TRUE, NetLink(2))>>] :
            l2 \in {1, 2}, ok3 \in BOOLEAN}

\* the character of a digit value
DigitChar(d) == <<"0", "1", "2", "3", "4", "5", "6", "7", "8", "9">>[d + 1]

\* strconv.FormatUint(v, 10) of a number given by its digits
FormatUint(v) == IF Len(v) = 0 THEN <<"0">> ELSE [k \in 1..Len(v) |-> DigitChar(v[k])]

\* the indices of the entries of the registry with the given name
RegIndex(reg, name) == {k \in 1..Len(reg.entries) : reg.entries[k].name = name}

\* GetNetNSNames: the names of the entries that are not directories, or
\* the error of os.ReadDir
netnsGetNetNSNamesAll(reg) ==
    IF ~reg.exists THEN [err |-> "not exist", names |-> <<>>]
    ELSE [err |-> "nil", names |-> [k \in 1..Len(reg.entries) |-> reg.entries[k].name]]

netnsGetNetNSNames(reg) ==
    IF ~reg.exists THEN [err |-> "not exist", names |-> <<>>]
    ELSE [err |-> "nil",
          names |-> LET keep == SelectSeq(reg.entries, LAMBDA e : ~e.dir)
                    IN [k \in 1..Len(keep) |-> keep[k].name]]

\* the inode strings of the names, in order: "net:[<inode>]"
InodeStrings(reg, netNSNames) ==
    [i \in 1..Len(netNSNames) |->
        NetLink(reg.entries[CHOOSE k \in RegIndex(reg, netNSNames[i]) : TRUE].ino)]

\* getNetNsInodeFromBindMount: os.Open and Fstat of every name; the first
\* failure returns nil and the error
inodesFromBindMount(reg, netNSNames) ==
    IF \A i \in 1..Len(netNSNames) :
          \E k \in RegIndex(reg, netNSNames[i]) : reg.entries[k].openable
    THEN [err |-> FALSE, inodes |-> InodeStrings(reg, netNSNames)]
    ELSE [err |-> TRUE, inodes |-> <<>>]

\* getNetNsInodeFromSymlink: os.Stat of every name; the first failure
\* returns nil and the error
inodesFromSymlink(reg, netNSNames) ==
    IF \A i \in 1..Len(netNSNames) : RegIndex(reg, netNSNames[i]) # {}
    THEN [err |-> FALSE, inodes |-> InodeStrings(reg, netNSNames)]
    ELSE [err |-> TRUE, inodes |-> <<>>]

\* inodeToFindMap keeping the first index of a repeated string
inodeToFindFirst(inode) ==
    {[f |-> inode[k], i |-> k - 1] :
        k \in {j \in 1..Len(inode) : \A h \in 1..(j - 1) : inode[h] # inode[j]}}

\* inodeToFind[f] = i for i, f := range inode, as pairs [f, i] with the
\* index counted from 0: the last index of a repeated string stays
inodeToFindMap(inode) ==
    {[f |-> inode[k], i |-> k - 1] :
        k \in {j \in 1..Len(inode) : \A h \in (j + 1)..Len(inode) : inode[h] # inode[j]}}

\* the entries of the process root a goroutine is started for: directories
\* whose name is a 32-bit decimal number
PidEntries(proc) ==
    SelectSeq(proc.entries, LAMBDA e : e.dir /\ ParseUint(e.name, 10, 32).err = "nil")

\* os.Readlink of <ProcPath>/<pid>/ns/net, the PID given by its digits
ReadNsLink(proc, pidv) ==
    LET at == {k \in 1..Len(proc.entries) :
                  /\ proc.entries[k].name = FormatUint(pidv)
                  /\ proc.entries[k].dir /\ proc.entries[k].linkok}
    IN IF at = {} THEN [ok |-> FALSE, target |-> NetLink(0)]
       ELSE [ok |-> TRUE, target |-> proc.entries[CHOOSE k \in at : TRUE].target]

\* the goroutines at their start, one per PID entry
NewNsWorkers(proc) ==
    [k \in 1..Len(PidEntries(proc)) |->
        [pc |-> "start", pidv |-> ParseUint(PidEntries(proc)[k].name, 10, 32).v]]

\* what a call returns: a map (or nil), an error, and for GetNetNSNames
\* the names
NsReturn(isnil, m, e, names) ==
    [done |-> TRUE, nil |-> isnil, m |-> m, err |-> e, names |-> names]

\* getPidofNetNsFromProcInodes up to the launch of the goroutines
StartScan(op, reg, proc, inode, netNSNames, form) ==
    /\ nsCall' = [op |-> op, reg |-> reg, proc |-> proc, inode |-> inode, names |-> netNSNames]
    /\ nsForm' = form
    /\ pidNetNSMap' = {}
    /\ IF proc.ok
       THEN /\ nsPc' = "scan"
            /\ inodeToFind' = inodeToFindMap(inode)
            /\ nsWorkers' = NewNsWorkers(proc)
            /\ nsRet' = NotRun
       ELSE /\ nsPc' = "returned"
            /\ inodeToFind' = {}
            /\ nsWorkers' = <<>>
            /\ nsRet' = IF op = "GetNetNsPids"
                        THEN NsReturn(FALSE, {}, "nil", <<>>)
                        ELSE NsReturn(TRUE, {}, "failed to read proc directory", <<>>)
    /\ UNCHANGED <<netstatVars, fnVars, fdVars>>

\* a call of GetNetNSNames
CallGetNetNSNames(reg) ==
    /\ nsPc = "idle"
    /\ nsPc' = "returned"
    /\ nsCall' = [NoNsCall EXCEPT !.op = "GetNetNSNames", !.reg = reg]
    /\ nsRet' = NsReturn(TRUE, {}, netnsGetNetNSNames(reg).err, netnsGetNetNSNames(reg).names)
    /\ UNCHANGED <<nsForm, inodeToFind, pidNetNSMap, nsWorkers, netstatVars, fnVars, fdVars>>

\* a call of getPidofNetNsFromProcInodes
CallGetPidofNetNs(proc, inode, netNSNames) ==
    /\ nsPc = "idle"
    /\ StartScan("getPidofNetNsFromProcInodes", <<>>, proc, inode, netNSNames, "none")

\* GetNetNsPids with the symbolic-link form tried first
CallGetNetNsPidsSymlinkFirst(reg, proc, netNSNames) ==
    /\ nsPc = "idle"
    /\ IF ~inodesFromSymlink(reg, netNSNames).err
       THEN StartScan("GetNetNsPids", reg, proc, inodesFromSymlink(reg, netNSNames).inodes,
                      netNSNames, "symlink")
       ELSE IF ~inodesFromBindMount(reg, netNSNames).err
       THEN StartScan("GetNetNsPids", reg, proc, inodesFromBindMount(reg, netNSNames).inodes,
                      netNSNames, "bindmount")
       ELSE /\ nsPc' = "returned"
            /\ nsCall' = [op |-> "GetNetNsPids", reg |-> reg, proc |-> proc, inode |-> <<>>,
                          names |-> netNSNames]
            /\ nsForm' = "failed"
            /\ nsRet' = NsReturn(FALSE, {}, "nil", <<>>)
            /\ UNCHANGED <<inodeToFind, pidNetNSMap, nsWorkers, netstatVars, fnVars, fdVars>>

\* GetNetNsPids up to the launch of the goroutines: the inodes come from
\* the bind-mount form, from the symbolic-link form when that fails, and a
\* failure of both returns an empty map
CallGetNetNsPids(reg, proc, netNSNames) ==
    /\ nsPc = "idle"
    /\ IF ~inodesFromBindMount(reg, netNSNames).err
       THEN StartScan("GetNetNsPids", reg, proc, inodesFromBindMount(reg, netNSNames).inodes,
                      netNSNames, "bindmount")
       ELSE IF ~inodesFromSymlink(reg, netNSNames).err
       THEN StartScan("GetNetNsPids", reg, proc, inodesFromSymlink(reg, netNSNames).inodes,
                      netNSNames, "symlink")
       ELSE /\ nsPc' = "returned"
            /\ nsCall' = [op |-> "GetNetNsPids", reg |-> reg, proc |-> proc, inode |-> <<>>,
                          names |-> netNSNames]
            /\ nsForm' = "failed"
            /\ nsRet' = NsReturn(FALSE, {}, "nil", <<>>)
            /\ UNCHANGED <<inodeToFind, pidNetNSMap, nsWorkers, netstatVars, fnVars, fdVars>>

\* the pairs of inodeToFind a goroutine with this link finds: that of the
\* target when the link can be read
FoundBy(l, find) == {e \in find : l.ok /\ e.f = l.target}

\* the goroutine with the link target not compared: any wanted inode left
\* is taken
FoundByAnyLink(l, find) == IF find = {} THEN {} ELSE {CHOOSE e \in find : TRUE}

\* NsClaim without delete(inodeToFind, target): a claimed inode stays wanted
NsClaimNoDelete(k, pid, hit) ==
    /\ nsWorkers' = [nsWorkers EXCEPT ![k] = [@ EXCEPT !.pc = "done"]]
    /\ IF hit = {} \/ Len(nsCall.names) = 0
       THEN UNCHANGED <<nsPc, inodeToFind, pidNetNSMap>>
       ELSE IF (CHOOSE e \in hit : TRUE).i >= Len(nsCall.names)
       THEN nsPc' = "panicked" /\ UNCHANGED <<inodeToFind, pidNetNSMap>>
       ELSE /\ pidNetNSMap' = {e \in pidNetNSMap : e.pid # pid}
                              \cup {[pid |-> pid,
                                     name |-> nsCall.names[(CHOOSE e \in hit : TRUE).i + 1]]}
            /\ UNCHANGED <<nsPc, inodeToFind>>
    /\ UNCHANGED <<nsCall, nsForm, nsRet, netstatVars, fnVars, fdVars>>

\* the goroutine of a PID with hit the pairs it found: the Readlink and
\* the section under the mutex; netNSNames[i] past the end of the names
\* panics
NsClaim(k, pid, hit) ==
    /\ nsWorkers' = [nsWorkers EXCEPT ![k] = [@ EXCEPT !.pc = "done"]]
    /\ IF hit = {} \/ Len(nsCall.names) = 0
       THEN UNCHANGED <<nsPc, inodeToFind, pidNetNSMap>>
       ELSE IF (CHOOSE e \in hit : TRUE).i >= Len(nsCall.names)
       THEN nsPc' = "panicked" /\ UNCHANGED <<inodeToFind, pidNetNSMap>>
       ELSE /\ pidNetNSMap' = {e \in pidNetNSMap : e.pid # pid}
                              \cup {[pid |-> pid,
                                     name |-> nsCall.names[(CHOOSE e \in hit : TRUE).i + 1]]}
            /\ inodeToFind' = inodeToFind \ hit
            /\ UNCHANGED nsPc
    /\ UNCHANGED <<nsCall, nsForm, nsRet, netstatVars, fnVars, fdVars>>

\* the goroutine of the k-th PID entry with any wanted inode claimed
NsWorkerAnyLink(k) ==
    /\ nsPc = "scan"
    /\ k \in 1..Len(nsWorkers)
    /\ nsWorkers[k].pc = "start"
    /\ NsClaim(k, ToInt(nsWorkers[k].pidv, 10),
               FoundByAnyLink(ReadNsLink(nsCall.proc, nsWorkers[k].pidv), inodeToFind))

\* the goroutine of the k-th PID entry
NsWorker(k) ==
    /\ nsPc = "scan"
    /\ k \in 1..Len(nsWorkers)
    /\ nsWorkers[k].pc = "start"
    /\ NsClaim(k, ToInt(nsWorkers[k].pidv, 10),
               FoundBy(ReadNsLink(nsCall.proc, nsWorkers[k].pidv), inodeToFind))

\* wg.Wait() and the return with every map returned, an empty one too
NsWaitAlwaysMap ==
    /\ nsPc = "scan"
    /\ \A k \in 1..Len(nsWorkers) : nsWorkers[k].pc = "done"
    /\ nsPc' = "returned"
    /\ nsRet' = NsReturn(FALSE, pidNetNSMap, "nil", <<>>)
    /\ UNCHANGED <<nsCall, nsForm, inodeToFind, pidNetNSMap, nsWorkers,
                   netstatVars, fnVars, fdVars>>

\* wg.Wait() and the return: an empty map is the no-match error, which
\* GetNetNsPids turns into an empty map
NsWait ==
    /\ nsPc = "scan"
    /\ \A k \in 1..Len(nsWorkers) : nsWorkers[k].pc = "done"
    /\ nsPc' = "returned"
    /\ nsRet' = IF nsCall.op = "GetNetNsPids" THEN NsReturn(FALSE, pidNetNSMap, "nil", <<>>)
                ELSE IF pidNetNSMap = {}
                THEN NsReturn(TRUE, {}, "no matching file descriptors found", <<>>)
                ELSE NsReturn(FALSE, pidNetNSMap, "nil", <<>>)
    /\ UNCHANGED <<nsCall, nsForm, inodeToFind, pidNetNSMap, nsWorkers,
                   netstatVars, fnVars, fdVars>>

\* the inode lists and the name lists of the direct calls
InodeInputs ==
    {<<>>, <<NetLink(1)>>, <<NetLink(1), NetLink(2)>>, <<NetLink(2), NetLink(1)>>,
     <<NetLink(4), NetLink(5)>>, <<NetLink(1), NetLink(5)>>, <<NetLink(2), NetLink(2)>>}
NameInputsNs == {<<>>, <<"netns1">>, <<"netns1", "netns2">>}

\* the name lists given to GetNetNsPids
NsNameLists ==
    {<<>>, <<"netns1">>, <<"netns1", "netns2">>, <<"netns2", "netns1">>,
     <<"netns1", "nosuchns">>, <<"nosuchns">>, <<"not_netns", "netns2">>}

\* the number of goroutines a call of the resolver starts at most
MaxNsWorkers == 3

InitRes == NetstatIdle /\ FnIdle /\ FdIdle /\ NsIdle

NextRes ==
    \/ \E reg \in Registries : CallGetNetNSNames(reg)
    \/ \E proc \in NsProcRoots, inode \in InodeInputs, names \in NameInputsNs :
          CallGetPidofNetNs(proc, inode, names)
    \/ \E reg \in Registries, proc \in NsProcRoots, names \in NsNameLists :
          CallGetNetNsPids(reg, proc, names)
    \/ \E k \in 1..MaxNsWorkers : NsWorker(k)
    \/ NsWait

SpecRes == InitRes /\ [][NextRes]_vars

\* ------------------------------------------------------------------------
\* The two functions that fill a map from goroutines, one call of either
\* ------------------------------------------------------------------------
MapsCallFd ==
    /\ nsPc = "idle"
    /\ \E tree \in FdTrees : GetProcessFDs(tree)

MapsCallNs ==
    /\ fdPc = "idle"
    /\ \E proc \in NsProcRoots, inode \in InodeInputs, names \in NameInputsNs :
          CallGetPidofNetNs(proc, inode, names)

NextMaps ==
    \/ MapsCallFd
    \/ MapsCallNs
    \/ FdCancel
    \/ \E k \in 1..MaxEntries : FdWorkerCheck(k)
    \/ \E k \in 1..MaxEntries : FdWorkerEntry(k)
    \/ FdWait
    \/ \E k \in 1..MaxNsWorkers : NsWorker(k)
    \/ NsWait

SpecMaps == Init /\ [][NextMaps]_vars

\* ------------------------------------------------------------------------
\* Calls of the decoding functions
\* ------------------------------------------------------------------------
FnCall(op, arg, accept) == [op |-> op, arg |-> arg, accept |-> accept]

TextCalls ==
    {FnCall("parseIPv4", x, "noop") : x \in IPv4Inputs}
    \cup {FnCall("parseIPv6", x, "noop") : x \in IPv6Inputs}
    \cup {FnCall("parseAddr", x, "noop") : x \in AddrInputs}
    \cup {FnCall("parseSockTab", x, a) : x \in TextTables, a \in Filters}
    \cup {FnCall("parseSocktab", x, a) : x \in TextTables, a \in Filters}
    \cup {FnCall("String", x, "noop") : x \in StateCodes}
    \cup {FnCall("getProcName", x, "noop") : x \in NameInputs}
    \cup {FnCall("getProcess", x, "noop") : x \in StatInputs}

InitText == NetstatIdle /\ FdIdle /\ NsIdle /\ fcall \in TextCalls /\ fret = NotRun

CallParseIPv4 ==
    /\ fcall.op = "parseIPv4" /\ ~fret.done
    /\ fret' = [done |-> TRUE, ip |-> parseIPv4(fcall.arg).ip,
                err |-> parseIPv4(fcall.arg).err]
    /\ UNCHANGED <<fcall, netstatVars, fdVars, nsVars>>

CallParseIPv6 ==
    /\ fcall.op = "parseIPv6" /\ ~fret.done
    /\ fret' = [done |-> TRUE, ip |-> parseIPv6(fcall.arg).ip,
                err |-> parseIPv6(fcall.arg).err, panic |-> parseIPv6(fcall.arg).panic]
    /\ UNCHANGED <<fcall, netstatVars, fdVars, nsVars>>

CallParseAddr ==
    /\ fcall.op = "parseAddr" /\ ~fret.done
    /\ fret' = [done |-> TRUE, ep |-> parseAddr(fcall.arg).ep,
                err |-> parseAddr(fcall.arg).err]
    /\ UNCHANGED <<fcall, netstatVars, fdVars, nsVars>>

\* parseSockTab(reader, accept, "tcp")
CallParseSockTab ==
    /\ fcall.op = "parseSockTab" /\ ~fret.done
    /\ fret' = [done |-> TRUE] @@ parseSockTabText(fcall.arg, fcall.accept, "tcp")
    /\ UNCHANGED <<fcall, netstatVars, fdVars, nsVars>>

\* parseSocktab(r, accept, "tcp")
CallParseSocktab ==
    /\ fcall.op = "parseSocktab" /\ ~fret.done
    /\ fret' = [done |-> TRUE] @@ parseSocktab(fcall.arg, fcall.accept, "tcp")
    /\ UNCHANGED <<fcall, netstatVars, fdVars, nsVars>>

\* String of the State of a decoded line
StringOf(d) ==
    IF d.err # "nil"
    THEN [done |-> TRUE, err |-> d.err, State |-> -1, panic |-> FALSE, str |-> ""]
    ELSE [done |-> TRUE, err |-> "nil", State |-> d.entry.State]
         @@ SkStateString(d.entry.State)

\* a table line with the given state code is decoded and the State of the
\* entry is printed with String
CallString ==
    /\ fcall.op = "String" /\ ~fret.done
    /\ fret' = StringOf(decodeText(StateLine(fcall.arg), "tcp"))
    /\ UNCHANGED <<fcall, netstatVars, fdVars, nsVars>>

\* processes.getProcName
CallGetProcName ==
    /\ fcall.op = "getProcName" /\ ~fret.done
    /\ fret' = [done |-> TRUE, name |-> processesGetProcName(fcall.arg)]
    /\ UNCHANGED <<fcall, netstatVars, fdVars, nsVars>>

\* processes.getProcess(12, processCache) with an empty cache and the
\* status file of 12 holding the text
CallGetProcess ==
    /\ fcall.op = "getProcess" /\ ~fret.done
    /\ fret' = [done |-> TRUE]
                @@ processesGetProcess(12, {}, [readable |-> TRUE, text |-> fcall.arg])
    /\ UNCHANGED <<fcall, netstatVars, fdVars, nsVars>>

NextText ==
    \/ CallParseIPv4
    \/ CallParseIPv6
    \/ CallParseAddr
    \/ CallParseSockTab
    \/ CallParseSocktab
    \/ CallString
    \/ CallGetProcName
    \/ CallGetProcess

SpecText == InitText /\ [][NextText]_vars

\* ------------------------------------------------------------------------
\* What a call is expected to deliver, stated apart from the steps above
\* ------------------------------------------------------------------------
\* the data lines of a table (everything after the first line)
DataOf(tab) == SubSeq(tab.lines, 2, Len(tab.lines))

\* some data line of the table does not decode
HasBadLine(tab) == \E k \in 1..Len(DataOf(tab)) : DataOf(tab)[k].kind # "row"

\* number of the first line that does not decode (past the end if none)
FirstBad(tab) ==
    IF HasBadLine(tab)
    THEN CHOOSE k \in 2..Len(tab.lines) :
            /\ tab.lines[k].kind # "row"
            /\ \A j \in 2..(k - 1) : tab.lines[j].kind = "row"
    ELSE Len(tab.lines) + 1

\* the entry of a well-formed data line of a file
EntryOf(line, file) ==
    [Transport |-> TransportOf(file.path), Inode |-> line.Inode, State |-> line.State,
     Process |-> NoProcess, NetNS |-> file.label, PodPid |-> file.pid]

\* the entries a file adds to the result: none if it cannot be opened or a
\* line does not decode, else the accepted rows in table order
Contribution(tab, file, filt) ==
    IF ~tab.open \/ HasBadLine(tab) THEN <<>>
    ELSE LET rows == [k \in 1..Len(DataOf(tab)) |-> EntryOf(DataOf(tab)[k], file)]
         IN SelectSeq(rows, LAMBDA e : Accept(filt, e))

\* the result with the enrichment taken off
StripProcess(tabs) == [k \in 1..Len(tabs) |-> [tabs[k] EXCEPT !.Process = NoProcess]]

\* the call has returned to its caller
Returned == mpc = "returned"

\* how often the filter was called for line k of file i
FilterCalls(i, k) == Cardinality({n \in 1..Len(w[i].log) : w[i].log[n].line = k})

\* ------------------------------------------------------------------------
\* Claims
\* ------------------------------------------------------------------------
\* C1: when a data line of an opened socket-table file fails to decode and
\* the outcome of that file has been collected, the call that returns
\* returns the decode error, not a result built from the other files.
C1_DecodeErrorAborts ==
    (Returned /\ \E i \in 1..Len(w) : w[i].ferr = "decode" /\ w[i].pc = "done")
        => err = "decode error"

\* C2: a file that cannot be opened adds no entry to the result, every file
\* adds what openFileStream delivers for it (for a file that opened and
\* decoded, its accepted entries), and a call that returns while the
\* context is not cancelled returns a nil error.
C2_OpenFailureSkipped ==
    Returned =>
        /\ ~ctxDone => err = "nil"
        /\ err = "nil" =>
              /\ StripProcess(combinedTabs) =
                    Concat([i \in 1..Len(files) |-> Contribution(w[i].tab, files[i], fn)])
              /\ \A i \in 1..Len(files) : w[i].ferr = "open" =>
                    ~\E k \in 1..Len(combinedTabs) :
                        /\ combinedTabs[k].Transport = TransportOf(files[i].path)
                        /\ combinedTabs[k].PodPid = files[i].pid

\* a call returned a nil error, one file could not be opened and another
\* file's entries are in the result
C2_Witness ==
    /\ Returned /\ err = "nil" /\ ~ctxDone
    /\ \E i \in 1..Len(files) : w[i].ferr = "open"
    /\ Len(combinedTabs) > 0

\* C3: when the context is cancelled before the results of all per-file
\* goroutines have been collected, the call returns the cancellation error,
\* and the result holds no more entries than the files have accepted ones.
C3_CancelReturnsError ==
    (Returned /\ cancelAt = "collecting") =>
        /\ err = "context canceled"
        /\ Len(combinedTabs) <=
              Len(Concat([i \in 1..Len(files) |-> Contribution(w[i].tab, files[i], fn)]))

\* C4: a goroutine whose entry check runs after the cancellation never
\* opens or parses its file, never calls the filter and sends an empty
\* slice.
C4_NoNewUnitAfterCancel ==
    \A i \in 1..Len(w) : w[i].late =>
        /\ w[i].pc \in {"send", "done"}
        /\ w[i].tab = NoTable /\ w[i].ferr = "none"
        /\ w[i].log = <<>> /\ w[i].sockTab = <<>> /\ w[i].val = <<>>

\* goroutine i started after the cancellation and delivered nothing, while
\* goroutine j, past its entry check when the context was cancelled,
\* delivered its entries after it
C4_Witness ==
    \E i, j \in 1..Len(w) :
        /\ i < j
        /\ w[i].late /\ w[i].pc = "done"
        /\ ~w[j].late /\ w[j].pc = "done" /\ Len(w[j].val) > 0
        /\ \E k \in 1..Len(combinedTabs) :
              combinedTabs[k].Transport = TransportOf(files[j].path)

\* C5: the filter is called at most once per line, never for the header,
\* for a file that has been parsed exactly once for every line that was
\* decoded (the lines before the first one that fails), each time with an
\* entry whose Process is nil; no goroutine is still running when the
\* enrichment writes Process.
C5_FilterOncePerLine ==
    /\ \A i \in 1..Len(w) :
          /\ FilterCalls(i, 1) = 0
          /\ \A k \in 2..Len(w[i].tab.lines) :
                /\ FilterCalls(i, k) <= 1
                /\ w[i].pc \in {"send", "done"} =>
                      FilterCalls(i, k) = IF k < FirstBad(w[i].tab) THEN 1 ELSE 0
          /\ \A n \in 1..Len(w[i].log) : w[i].log[n].Process = NoProcess
    /\ mpc = "extract" => \A i \in 1..Len(w) : w[i].pc = "done"

\* a file with MaxRows decoded lines has been parsed and delivered
C5_Witness ==
    \E i \in 1..Len(w) :
        /\ w[i].pc = "done"
        /\ Len(w[i].log) = MaxRows
        /\ Len(w[i].sockTab) > 0 /\ Len(w[i].sockTab) < MaxRows

\* the processes whose fd directory shows a socket link to the inode
Holders(inode) ==
    {p \in ProcPids : procs[p].fdok /\ SockLink(inode) \in procs[p].fd}

\* the call has returned without a cancellation error and with enrichment asked for
EnrichedReturn == Returned /\ err = "nil" /\ feature.PID

\* C6: after a call with PID enrichment that was not cancelled, every entry
\* whose inode some process holds has Process set to a holder's PID, and
\* every entry whose inode no process holds has a nil Process.
C6_HolderIsProcess ==
    EnrichedReturn =>
        \A k \in 1..Len(combinedTabs) :
            IF Holders(combinedTabs[k].Inode) = {}
            THEN combinedTabs[k].Process = NoProcess
            ELSE combinedTabs[k].Process.Pid \in Holders(combinedTabs[k].Inode)

\* the process a call of its own would make for pid: nothing cached
FreshProcess(pid) == getProcess(pid, [p \in ProcPids |-> NoProcess], procs[pid].stat).p

\* C7: a Process a call returns was made in that call: it is what the
\* status file of its PID yields at that call, not a value of an earlier call.
C7_CacheScopedToCall ==
    EnrichedReturn =>
        \A k \in 1..Len(combinedTabs) :
            combinedTabs[k].Process # NoProcess =>
                combinedTabs[k].Process = FreshProcess(combinedTabs[k].Process.Pid)

\* the process table has been listed, or a process directory scanned
ProcScanned == mpc = "extract" \/ scanned # {} \/ procs # NoProcs \/ pidCh # {}

\* some data line of some file of the call is a row the filter accepts
SomeAccepted ==
    \E i \in 1..Len(w) : \E k \in 2..Len(w[i].tab.lines) :
        /\ w[i].tab.lines[k].kind = "row"
        /\ Accept(fn, EntryOf(w[i].tab.lines[k], files[i]))

\* C10: the process table is scanned in a call only if PID is requested
\* and the filter accepted at least one entry; with a filter that rejects
\* every socket nothing is scanned.
C10_NoScanWithoutAccepted ==
    /\ ProcScanned => feature.PID /\ SomeAccepted /\ Len(combinedTabs) > 0
    /\ fn = "none" => ~ProcScanned

\* a call with PID requested returned after its filter rejected every
\* socket of a table with rows, and nothing was scanned
C10_Witness ==
    /\ Returned /\ err = "nil" /\ feature.PID /\ fn = "none"
    /\ \E i \in 1..Len(w) : Len(w[i].log) > 0 /\ w[i].pc = "done"
    /\ ~ProcScanned

\* the table paths of the protocol flags that are set
EnabledPaths(f) ==
    {x \in {pathTCPTab, pathTCP6Tab, pathUDPTab, pathUDP6Tab,
            pathUDPLiteTab, pathUDPLite6Tab, pathRawTab, pathRaw6Tab} :
        \/ x = pathTCPTab /\ f.TCP
        \/ x = pathTCP6Tab /\ f.TCP6
        \/ x = pathUDPTab /\ f.UDP
        \/ x = pathUDP6Tab /\ f.UDP6
        \/ x = pathUDPLiteTab /\ f.UDPLite
        \/ x = pathUDPLite6Tab /\ f.UDPLite6
        \/ x = pathRawTab /\ f.Raw
        \/ x = pathRaw6Tab /\ f.Raw6}

\* the names a call asks for: NetNsName, and all registry handles with AllNetNs
WantedNames(f) ==
    Range(f.NetNsName)
    \cup (IF f.AllNetNs THEN {n \in DOMAIN NsRegistry : ~NsRegistry[n].dir} ELSE {})

\* the working PID set of the claim, for the resolved map m
ExpectedPids(f, m) ==
    (IF f.NoHostNetwork THEN {} ELSE {HostPid})
    \cup {e.pid : e \in {x \in m : x.name \in WantedNames(f)}}
    \cup Range(f.NetNsPids)

\* the (PID, table) pairs of the files of the call
FilePairs == {<<files[i].pid, files[i].path>> : i \in 1..Len(files)}

\* the call selects no namespace and excludes the host
NothingSelected(f) ==
    f.NoHostNetwork /\ f.NetNsName = <<>> /\ ~f.AllNetNs /\ f.NetNsPids = <<>>

NsPidOf(n) == CHOOSE p \in ProcPids : NsNetLink[p] = NsRegistry[n].ino

\* the call is restricted to the one namespace name n
RestrictedTo(f, n) ==
    f.NetNsName = <<n>> /\ f.NoHostNetwork /\ ~f.AllNetNs /\ f.NetNsPids = <<>>

IsHex(s) == \A k \in 1..Len(s) : s[k] \in hexadecimalDigits

\* the byte written as the two hex digits at k and k + 1
PairByte(s, k) == 16 * DigitVal(s[k]) + DigitVal(s[k + 1])

\* the byte pairs of 8 hex digits in reverse order
ReversedPairs(s) == <<PairByte(s, 7), PairByte(s, 5), PairByte(s, 3), PairByte(s, 1)>>

\* the four groups of 32 hex digits, each with its byte pairs reversed
ReversedGroups(s) ==
    ReversedPairs(SubSeq(s, 1, 8)) \o ReversedPairs(SubSeq(s, 9, 16))
    \o ReversedPairs(SubSeq(s, 17, 24)) \o ReversedPairs(SubSeq(s, 25, 32))

\* the lines of a table after its first line
TextData(lines) == IF Len(lines) = 0 THEN <<>> ELSE Tail(lines)

\* lines that have the format of a table line, with or without trailing fields
WellFormedLines == {b \o t : b \in BaseLines, t \in TrailingFields}

\* a parseSockTab call has returned
SockTabReturned == fcall.op = "parseSockTab" /\ fret.done

\* C11: parseSockTab never decodes the first line; for a table whose other
\* lines are well formed it returns a nil error and, in table order, the
\* entries of the lines the filter accepted: all N of them with
\* NoopFilter, none with a filter that rejects everything.
C11_HeaderDroppedRestFiltered ==
    (SockTabReturned /\ \A k \in 1..Len(TextData(fcall.arg)) :
                            TextData(fcall.arg)[k] \in WellFormedLines) =>
        /\ fret.err = "nil"
        /\ fret.tabs =
              SelectSeq([k \in 1..Len(TextData(fcall.arg)) |->
                            decodeText(TextData(fcall.arg)[k], "tcp").entry],
                        LAMBDA e : Accept(fcall.accept, e))
        /\ fcall.accept = "noop" => Len(fret.tabs) = Len(TextData(fcall.arg))
        /\ fcall.accept = "none" => fret.tabs = <<>>

\* the table of the test "No filter" gave its two entries: 127.0.0.1:5037
\* listening with uid 0, then port 22 with uid 1
C11_Witness ==
    /\ SockTabReturned /\ fcall.accept = "noop" /\ fret.err = "nil"
    /\ Len(fcall.arg) = 3 /\ Len(fret.tabs) = 2
    /\ fret.tabs[1].LocalEndpoint = [IP |-> <<127, 0, 0, 1>>, Port |-> 5037]
    /\ fret.tabs[1].State = Listen /\ fret.tabs[1].UID = <<>>
    /\ fret.tabs[2].LocalEndpoint = [IP |-> <<0, 0, 0, 0>>, Port |-> 22]
    /\ fret.tabs[2].UID = <<1>>

\* C12: a data line that does not have the table format, or whose local or
\* remote endpoint does not decode, makes parseSockTab return an error and
\* no entry at all.
C12_BadLineFailsAll ==
    (SockTabReturned /\ \E k \in 1..Len(TextData(fcall.arg)) :
                            TextData(fcall.arg)[k] \in BadLines) =>
        fret.err # "nil" /\ fret.tabs = <<>>

\* a table whose first data line is well formed and accepted and whose
\* second one is a comment returned an error and nothing else
C12_Witness ==
    /\ SockTabReturned /\ fcall.accept = "noop"
    /\ Len(fcall.arg) = 3
    /\ fcall.arg[2] \in BaseLines
    /\ fcall.arg[3] = <<"#", " ", "t", "e", "s", "t">>
    /\ fret.err = "expected integer" /\ fret.tabs = <<>>

\* C13: every two-digit state code decodes, and String of a state that is
\* none of the 11 named ones yields UNKNOWN without a failure.
C13_UnknownStateNoFailure ==
    (fcall.op = "String" /\ fret.done) =>
        /\ fret.err = "nil"
        /\ ~fret.panic
        /\ fret.State \notin 1..11 => fret.str = "UNKNOWN"

\* the line without the trailing fields t
BaseOf(line) == CHOOSE b \in BaseLines : \E t \in TrailingFields : line = b \o t

\* C14: a table whose data lines carry fields after the memory address
\* decodes without error to the entries of the same lines without them.
C14_TrailingFieldsIgnored ==
    (SockTabReturned /\ \A k \in 1..Len(TextData(fcall.arg)) :
                            TextData(fcall.arg)[k] \in WellFormedLines) =>
        /\ fret.err = "nil"
        /\ fret.tabs =
              parseSockTabText(<<HeaderText>> \o
                                  [k \in 1..Len(TextData(fcall.arg)) |->
                                      BaseOf(TextData(fcall.arg)[k])],
                               fcall.accept, "tcp").tabs

\* a raw-socket line with a drop counter after the memory address gave its entry
C14_Witness ==
    /\ SockTabReturned /\ fcall.accept = "noop" /\ fret.err = "nil"
    /\ Len(fcall.arg) = 2
    /\ fcall.arg[2] \in WellFormedLines \ BaseLines
    /\ Len(fret.tabs) = 1
    /\ fret.tabs[1].LocalEndpoint = [IP |-> <<127, 0, 0, 1>>, Port |-> 17]
    /\ fret.tabs[1].Inode = <<4, 2, 2, 9, 8, 5, 6, 1, 0, 3>>

\* the part of s before its first ":" and the part after it up to the next
HostPart(s) == SubSeq(s, 1, IndexOf(s, ":") - 1)
PortPart(s) ==
    LET rest == SubSeq(s, IndexOf(s, ":") + 1, Len(s))
    IN IF IndexOf(rest, ":") = 0 THEN rest ELSE SubSeq(rest, 1, IndexOf(rest, ":") - 1)

\* a base-16 value that fits 16 bits
PortOk(q) == Len(q) > 0 /\ IsHex(q) /\ Len(Norm([k \in 1..Len(q) |-> DigitVal(q[k])])) <= 4

\* C15: parseAddr fails without a ":", fails with the bad-format error when
\* the address part has neither 8 nor 32 digits, fails when the address or
\* the port is not base-16 or the port does not fit 16 bits, and else
\* returns the port value and the decoded address.
C15_ParseAddr ==
    (fcall.op = "parseAddr" /\ fret.done) =>
        LET s == fcall.arg
        IN IF IndexOf(s, ":") = 0 THEN fret.err = "not enough fields" /\ fret.ep = NoEndpoint
           ELSE IF Len(HostPart(s)) \notin {8, 32}
           THEN fret.err = "bad formatted string" /\ fret.ep = NoEndpoint
           ELSE IF ~IsHex(HostPart(s)) \/ ~PortOk(PortPart(s))
           THEN fret.err # "nil" /\ fret.ep = NoEndpoint
           ELSE /\ fret.err = "nil"
                /\ fret.ep.Port = ToInt([k \in 1..Len(PortPart(s)) |-> DigitVal(PortPart(s)[k])], 16)
                /\ fret.ep.IP = IF Len(HostPart(s)) = 8 THEN ReversedPairs(HostPart(s))
                                ELSE ReversedGroups(HostPart(s))

\* 0100007F:0035 gave 127.0.0.1 and port 53
C15_Witness ==
    /\ fcall.op = "parseAddr" /\ fret.done
    /\ fcall.arg = <<"0", "1", "0", "0", "0", "0", "7", "F", ":", "0", "0", "3", "5">>
    /\ fret.err = "nil"
    /\ fret.ep = [IP |-> <<127, 0, 0, 1>>, Port |-> 53]

\* C16: for 8 hex digits parseIPv4 returns the 4 bytes of the hex byte
\* pairs in reverse order; for a string that is not base-16 it returns an
\* error and no address.
C16_ParseIPv4LittleEndian ==
    (fcall.op = "parseIPv4" /\ fret.done) =>
        /\ (Len(fcall.arg) = 8 /\ IsHex(fcall.arg)) =>
              fret.err = "nil" /\ fret.ip = ReversedPairs(fcall.arg)
        /\ (Len(fcall.arg) = 0 \/ ~IsHex(fcall.arg)) =>
              fret.err # "nil" /\ fret.ip = NoIP

\* 0100007F gave 127.0.0.1
C16_Witness ==
    /\ fcall.op = "parseIPv4" /\ fret.done
    /\ fcall.arg = <<"0", "1", "0", "0", "0", "0", "7", "F">>
    /\ fret.err = "nil" /\ fret.ip = <<127, 0, 0, 1>>

\* C17: for 32 hex digits parseIPv6 returns the 16 bytes of the four
\* groups in order, each with its bytes reversed; when a group is not
\* base-16 it returns an error and no address.
C17_ParseIPv6Groups ==
    (fcall.op = "parseIPv6" /\ fret.done /\ Len(fcall.arg) = 32) =>
        IF IsHex(fcall.arg)
        THEN ~fret.panic /\ fret.err = "nil" /\ fret.ip = ReversedGroups(fcall.arg)
        ELSE ~fret.panic /\ fret.err # "nil" /\ fret.ip = NoIP

\* 341280FE11107856FF015FE6C65847FE gave fe80:1234:5678:1011:e65f:1ff:fe47:58c6
C17_Witness ==
    /\ fcall.op = "parseIPv6" /\ fret.done
    /\ fcall.arg = <<"3", "4", "1", "2", "8", "0", "F", "E", "1", "1", "1", "0", "7", "8", "5", "6", "F", "F", "0", "1", "5", "F", "E", "6", "C", "6", "5", "8", "4", "7", "F", "E">>
    /\ fret.err = "nil"
    /\ fret.ip = <<254, 128, 18, 52, 86, 120, 16, 17, 230, 95, 1, 255, 254, 71, 88, 198>>

\* C20: processes.getProcName returns the text between the first "(" and
\* the last ")" of its input, and the empty string when there is no "(",
\* no ")" after it, or nothing between them.
C20_OutermostParentheses ==
    (fcall.op = "getProcName" /\ fret.done) =>
        LET s == fcall.arg
            i == IndexOf(s, "(")
            j == LastIndexOf(s, ")")
        IN fret.name = IF i = 0 \/ j <= i THEN <<>> ELSE SubSeq(s, i + 1, j - 1)

\* ------------------------------------------------------------------------
\* What GetProcessFDs finds under the process root
\* ------------------------------------------------------------------------
\* the name of a process directory: decimal digits only
IsNumericName(name) ==
    Len(name) > 0 /\ \A i \in 1..Len(name) : name[i] \in decimalDigits

\* the PID a numeric name stands for
PidOfName(name) == ToInt([i \in 1..Len(name) |-> DigitVal(name[i])], 10)

\* the numeric entries of the root whose fd directory can be listed
ListedEntries ==
    {k \in 1..Len(fdTree.entries) :
        IsNumericName(fdTree.entries[k].name) /\ fdTree.entries[k].fdok}

\* the inodes of the socket links in the fd directory of entry k
SocketInodesOf(k) ==
    {fdTree.entries[k].fd[i].ino : i \in {j \in 1..Len(fdTree.entries[k].fd) :
                                            /\ fdTree.entries[k].fd[j].prefix = sockPrefix
                                            /\ fdTree.entries[k].fd[j].ino >= 0}}

\* the PIDs of the listed entries that hold a socket link to ino
HoldersOf(ino) ==
    {PidOfName(fdTree.entries[k].name) : k \in {j \in ListedEntries : ino \in SocketInodesOf(j)}}

\* the listed entries whose status file cannot be read
UnreadableEntries == {k \in ListedEntries : ~fdTree.entries[k].stat.readable}

\* GetProcessFDs has returned the map of a root it could read, and the
\* context was never cancelled
FdCompleted == fdPc = "returned" /\ fdTree.ok /\ ~fdCtxDone

\* C18: when GetProcessFDs completes without cancellation, the keys of its
\* map are exactly the inodes of the socket links in the fd directories of
\* the numeric entries of the process root, each inode has one value, and
\* the Pid of that value is a process holding a socket link to the inode.
C18_ExactlySocketInodes ==
    FdCompleted =>
        /\ {e.fd : e \in processFDs} = UNION {SocketInodesOf(k) : k \in ListedEntries}
        /\ \A e \in processFDs : e.process.Pid \in HoldersOf(e.fd)
        /\ \A e1 \in processFDs, e2 \in processFDs : e1.fd = e2.fd => e1 = e2

\* PID 1 holds 12345 and 67890 and PID 2 holds 67890 too: both inodes are
\* in the map, and the inode of the link under self is not
C18_Witness ==
    /\ FdCompleted
    /\ {e.fd : e \in processFDs} = {12345, 67890}
    /\ \E e \in processFDs : e.fd = 12345 /\ e.process.Pid = 1
    /\ \E e \in processFDs : e.fd = 67890 /\ e.process.Pid = 2

\* C19 as stated: when the status file of a process cannot be read,
\* getProcess returns a Process with only the Pid set, GetProcessFDs returns
\* a nil error, and every socket inode of that process is in the map with
\* a Process of that Pid and an empty name.
C19_EveryInodeToThatPid ==
    FdCompleted =>
        /\ procErr = "nil"
        /\ \A k \in UnreadableEntries :
              LET pid == PidOfName(fdTree.entries[k].name)
                  only == [Pid |-> pid, Name |-> <<>>]
              IN /\ \A i \in 1..Len(fdWorkers[k].got) :
                        fdWorkers[k].got[i].err /\ fdWorkers[k].got[i].p = only
                 /\ \A ino \in SocketInodesOf(k) :
                        [fd |-> ino, process |-> only] \in processFDs

\* C19 as amended: when the status file of a process cannot be read,
\* getProcess returns a Process with only the Pid set, GetProcessFDs returns
\* a nil error, and every socket inode of that process is in the map, with
\* a Process of that Pid and an empty name or with another process that
\* holds a socket link to the same inode.
C19_UnreadableStatusKeepsInodes ==
    FdCompleted =>
        /\ procErr = "nil"
        /\ \A k \in UnreadableEntries :
              LET pid == PidOfName(fdTree.entries[k].name)
                  only == [Pid |-> pid, Name |-> <<>>]
              IN /\ \A i \in 1..Len(fdWorkers[k].got) :
                        fdWorkers[k].got[i].err /\ fdWorkers[k].got[i].p = only
                 /\ \A ino \in SocketInodesOf(k) :
                        \E e \in processFDs :
                            /\ e.fd = ino
                            /\ \/ e.process = only
                               \/ e.process.Pid \in HoldersOf(ino) \ {pid}

\* the status file of PID 1 could not be read and that of PID 2 could:
\* 12345 is mapped to PID 1 without a name and 67890 to PID 2 with its name
C19_Witness ==
    /\ FdCompleted
    /\ procErr = "nil"
    /\ 1 \in UnreadableEntries
    /\ Len(fdWorkers[1].got) = 1 /\ fdWorkers[1].got[1].err
    /\ [fd |-> 12345, process |-> [Pid |-> 1, Name |-> <<>>]] \in processFDs
    /\ [fd |-> 67890, process |-> [Pid |-> 2, Name |-> <<"b">>]] \in processFDs

\* ------------------------------------------------------------------------
\* What the namespace resolver finds
\* ------------------------------------------------------------------------
\* the PIDs of the process root whose ns/net link has the given target
PidsLinkedTo(target) ==
    {PidOfName(nsCall.proc.entries[k].name) :
        k \in {j \in 1..Len(nsCall.proc.entries) :
                  /\ nsCall.proc.entries[j].dir
                  /\ IsNumericName(nsCall.proc.entries[j].name)
                  /\ nsCall.proc.entries[j].linkok
                  /\ nsCall.proc.entries[j].target = target}}

\* getPidofNetNsFromProcInodes was called and has returned after listing
\* the process root
PidofReturned ==
    nsCall.op = "getPidofNetNsFromProcInodes" /\ nsPc = "returned" /\ nsCall.proc.ok

\* GetNetNsPids was called and has returned
NetNsPidsReturned == nsCall.op = "GetNetNsPids" /\ nsPc = "returned"

\* some wanted inode is the link target of some process
SomeInodeMatches ==
    \E i \in 1..Len(nsCall.inode) : PidsLinkedTo(nsCall.inode[i]) # {}

\* the registry entries with the given name
RegEntriesNamed(name) ==
    {nsCall.reg.entries[k] : k \in {j \in 1..Len(nsCall.reg.entries) :
                                       nsCall.reg.entries[j].name = name}}

\* the name is in the registry and some process lives in its namespace
Resolvable(name) ==
    \E e \in RegEntriesNamed(name) : PidsLinkedTo(NetLink(e.ino)) # {}

\* os.Open succeeds for every name; os.Stat succeeds for every name
AllOpenable ==
    \A i \in 1..Len(nsCall.names) : \E e \in RegEntriesNamed(nsCall.names[i]) : e.openable
AllStatable ==
    \A i \in 1..Len(nsCall.names) : RegEntriesNamed(nsCall.names[i]) # {}

\* C21: every pair (pid, name) getPidofNetNsFromProcInodes maps, while it
\* runs and in its result, has the name at an index i where the wanted
\* inode string at index i is the ns/net link target of that PID; so no
\* PID whose link target is no wanted inode is mapped.
C21_MappedOnlyOnMatchingLink ==
    nsCall.op = "getPidofNetNsFromProcInodes" =>
        /\ \A e \in pidNetNSMap :
              \E i \in 1..Len(nsCall.inode) :
                  /\ i <= Len(nsCall.names)
                  /\ e.name = nsCall.names[i]
                  /\ e.pid \in PidsLinkedTo(nsCall.inode[i])
        /\ (nsPc = "returned" /\ nsCall.proc.ok) => nsRet.m = pidNetNSMap

\* the test matching_inodes: net:[1], net:[2] with netns1, netns2 gave
\* 1 -> netns1 and 2 -> netns2, and 3 is not in the map
C21_Witness ==
    /\ PidofReturned
    /\ nsCall.inode = <<NetLink(1), NetLink(2)>>
    /\ nsRet.m = {[pid |-> 1, name |-> "netns1"], [pid |-> 2, name |-> "netns2"]}

C23_PartialSuccessKept ==
    (NetNsPidsReturned /\ nsCall.proc.ok) =>
        \A i \in 1..Len(nsCall.names) :
            Resolvable(nsCall.names[i]) => \E e \in nsRet.m : e.name = nsCall.names[i]

\* C24: GetNetNsPids takes the inodes from the bind-mount form when that
\* form succeeds and from the symbolic-link form only when it fails, and
\* it always returns a map and no error: the empty map when both forms
\* fail or no PID matched.
C24_BindMountFirstNeverFails ==
    /\ nsCall.op = "GetNetNsPids" => nsPc # "panicked"
    /\ NetNsPidsReturned =>
          /\ nsRet.err = "nil" /\ ~nsRet.nil
          /\ nsRet.m = pidNetNSMap
          /\ AllOpenable => nsForm = "bindmount"
          /\ (~AllOpenable /\ AllStatable) => nsForm = "symlink"
          /\ (~AllOpenable /\ ~AllStatable) => (nsForm = "failed" /\ nsRet.m = {})

\* netns1 could not be opened, so the inodes came from the symbolic-link
\* form, and PID 1 was mapped
C24_Witness ==
    /\ NetNsPidsReturned
    /\ nsForm = "symlink"
    /\ nsRet.m = {[pid |-> 1, name |-> "netns1"]}

\* C25: GetNetNSNames returns the names of exactly the entries of the
\* registry that are not directories, in directory order, and a not-exist
\* error with no names when the path does not exist.
C25_NonDirectoryEntries ==
    (nsCall.op = "GetNetNSNames" /\ nsPc = "returned") =>
        IF nsCall.reg.exists
        THEN /\ nsRet.err = "nil"
             /\ Range(nsRet.names) = {e.name : e \in {x \in Range(nsCall.reg.entries) : ~x.dir}}
             /\ Len(nsRet.names) = Cardinality({x \in Range(nsCall.reg.entries) : ~x.dir})
        ELSE nsRet.err = "not exist" /\ nsRet.names = <<>>

\* the test directory: netns1 and netns2 are returned, not_netns is not
C25_Witness ==
    /\ nsCall.op = "GetNetNSNames" /\ nsPc = "returned"
    /\ Len(nsCall.reg.entries) = 3
    /\ nsRet.names = <<"netns1", "netns2">>


\* the goroutine of file i has reached its send chs[i] <- ... and nothing
\* has received it
Parked(i) == w[i].pc = "send"

\* C26: every per-file goroutine terminates, also when Netstat returns
\* before it has received from every channel: after the return, the only
\* receiver of the channels being gone, no goroutine is parked at its send.
C26_NoSenderLeftBehind ==
    Returned => \A i \in 1..Len(w) : ~Parked(i)


\* the entries of the data lines of a file that the filter was called for
\* and accepted, in table order: none for a file that cannot be opened
AcceptedLines(tab, file, filt) ==
    IF ~tab.open THEN <<>>
    ELSE LET rows == SubSeq(DataOf(tab), 1, FirstBad(tab) - 2)
             entries == [k \in 1..Len(rows) |-> EntryOf(rows[k], file)]
         IN SelectSeq(entries, LAMBDA e : Accept(filt, e))

\* C27: a call whose context is never cancelled returns a nil error and
\* the concatenation, in the order of the files, of the accepted entries of
\* every file in table order: as many entries as the files that could be
\* opened have accepted data lines.
C27_AllAcceptedInOrder ==
    (Returned /\ ~ctxDone) =>
        /\ err = "nil"
        /\ StripProcess(combinedTabs) =
              Concat([i \in 1..Len(files) |-> AcceptedLines(w[i].tab, files[i], fn)])


\* the PIDs whose directory scan (one round of a worker's loop over pidCh)
\* has written the Process of entry k in this call
Writers(k) ==
    {p \in scanned : procs[p].fdok /\ k \in Matches(procs[p], combinedTabs)}

\* C28: during the enrichment the Process of an entry is written in the
\* scan of at most one process directory, so no two workers (any worker
\* takes any PID from pidCh) write the same entry, also when several
\* processes hold a descriptor for the same socket inode.
C28_SingleWriter ==
    \A k \in 1..Len(combinedTabs) : Cardinality(Writers(k)) <= 1


\* the goroutines that are inside a call of the filter
InFilter == {i \in 1..Len(w) : w[i].pc = "accept"}

\* the calls of the filter goroutine i has made, those that have returned,
\* and those in progress
FilterStarted(i) == Len(w[i].log)
FilterReturned(i) == IF w[i].line < 2 THEN 0 ELSE w[i].line - 2
FilterInProgress(i) == FilterStarted(i) - FilterReturned(i)

CancelReturned == Returned /\ err = "context canceled"

\* goroutine i never read its file (so far): what the file holds is open
Unread(i) == w[i].late \/ w[i].pc \in {"check", "open"}

\* what the files of the call may hold, given what the goroutines read
DiskViews ==
    {d \in [1..Len(files) -> WideTables] :
        \A i \in 1..Len(files) : ~Unread(i) => d[i] = w[i].tab}

\* no entry of the result has Process set
NoProcessSet == \A n \in 1..Len(combinedTabs) : combinedTabs[n].Process = NoProcess

\* C30 as stated: a result returned with the cancellation error is, whatever
\* the files hold, the complete accepted entries of the first k files for
\* some k, and no entry of it has Process set.
C30_PrefixOfFiles ==
    CancelReturned =>
        /\ NoProcessSet
        /\ \A d \in DiskViews : \E k \in 0..Len(files) :
              combinedTabs = Concat([i \in 1..k |-> Contribution(d[i], files[i], fn)])

\* C30, amended: a result returned with the cancellation error is made of
\* the files the loop received from, the first k for some k below the
\* number of files, in order: of each either its complete accepted entries
\* or, when its goroutine saw the cancellation or delivered an error,
\* nothing; no entry of it has Process set.
C30_WholeFilesOrNothing ==
    CancelReturned =>
        /\ NoProcessSet
        /\ mi - 1 < Len(files)
        /\ combinedTabs =
              Concat([i \in 1..(mi - 1) |->
                        IF w[i].late \/ w[i].ferr # "none" THEN <<>>
                        ELSE Contribution(w[i].tab, files[i], fn)])

\* the call returned the cancellation error with the entries of its second
\* file and nothing of the first, whose goroutine saw the cancellation
C30_Witness ==
    /\ CancelReturned
    /\ mi = 3 /\ w[1].late
    /\ Len(combinedTabs) > 0
    /\ combinedTabs = Contribution(w[2].tab, files[2], fn)


\* the PIDs extractProcInfo sends to pidCh: the numeric directories
NumericDirs == {e.pid : e \in {x \in ProcRoot : x.dir /\ x.numeric}}

\* the enrichment of this call has run and the call has returned
EnrichmentOver == Returned /\ procs # NoProcs

\* pidCh never holds more than its capacity len(fi), no PID is handled
\* twice or dropped, and the return comes after the last PID was handled
ExtractInv ==
    /\ Cardinality(pidCh) <= Cardinality(ProcRoot)
    /\ pidCh \cap scanned = {}
    /\ mpc = "extract" => pidCh \cup scanned = NumericDirs
    /\ EnrichmentOver => pidCh = {} /\ scanned = NumericDirs

\* C31: extractProcInfo always terminates: the PIDs fit the buffer of pidCh,
\* every numeric directory of the process root is handled by one worker
\* once, and the function returns, and only after every PID was handled.
C31_ExtractTerminates ==
    /\ []ExtractInv
    /\ (mpc = "extract") ~> EnrichmentOver

\* the enrichment has handled every numeric directory and the call returned
C31_Witness ==
    /\ EnrichmentOver /\ feature.PID
    /\ scanned = NumericDirs /\ Cardinality(scanned) = 3
    /\ written # {}


\* every goroutine of GetProcessFDs, of the resolver, has finished
FdWorkersDone == \A k \in 1..Len(fdWorkers) : fdWorkers[k].pc = "done"
NsWorkersDone == \A k \in 1..Len(nsWorkers) : nsWorkers[k].pc = "done"

\* a step changes the map by one goroutine's write: that goroutine moves,
\* no other does
OneWriterFd ==
    processFDs' # processFDs =>
        \/ fdPc = "idle"
        \/ Cardinality({k \in 1..Len(fdWorkers) : fdWorkers'[k] # fdWorkers[k]}) = 1
OneWriterNs ==
    pidNetNSMap' # pidNetNSMap =>
        \/ nsPc = "idle"
        \/ Cardinality({k \in 1..Len(nsWorkers) : nsWorkers'[k] # nsWorkers[k]}) = 1

NumCPU == 2

\* the goroutines of GetProcessFDs that exist: started and not finished
LiveFdWorkers == {k \in 1..Len(fdWorkers) : fdWorkers[k].pc # "done"}

\* C33: at every moment the number of goroutines of GetProcessFDs that
\* exist at the same time is at most a fixed cap tied to the available
\* parallelism, however many entries the process root has.
C33_FanOutBounded == Cardinality(LiveFdWorkers) <= NumCPU


\* the Process GetProcessFDs makes for entry k of the root
EntryProcess(k) ==
    processesGetProcess(PidOfName(fdTree.entries[k].name), {}, fdTree.entries[k].stat).p

\* the listed entries that hold a socket link to ino
HolderEntries(ino) == {k \in ListedEntries : ino \in SocketInodesOf(k)}

\* the map of the run in which the goroutines run one after the other in
\* the order of the root: the last holder of an inode has it
RootOrderMap ==
    {[fd |-> ino,
      process |-> EntryProcess(CHOOSE k \in HolderEntries(ino) :
                                  \A j \in HolderEntries(ino) : j <= k)] :
        ino \in UNION {SocketInodesOf(k) : k \in ListedEntries}}

\* C34 as stated: for a fixed process tree the map GetProcessFDs returns is
\* the same in every run, that of the run in root order, however the
\* goroutines interleave and also when two processes hold the same inode.
C34_SameMapEveryRun == FdCompleted => processFDs = RootOrderMap

\* C34, amended: for a fixed process tree the keys of the map are the same
\* in every run and an inode held by one process has the same Process in
\* every run; an inode held by several has the Process of one of them,
\* which one depending on the interleaving.
C34_SameMapButSharedInodes ==
    FdCompleted =>
        /\ {e.fd : e \in processFDs} = {e.fd : e \in RootOrderMap}
        /\ \A e \in processFDs :
              /\ \E k \in HolderEntries(e.fd) : e.process = EntryProcess(k)
              /\ Cardinality(HolderEntries(e.fd)) = 1 => e \in RootOrderMap

\* PIDs 1 and 2 both hold 67890 and the map has it for PID 1, not for the
\* last holder in root order; 12345, held by PID 1 alone, is as in every run
C34_Witness ==
    /\ FdCompleted
    /\ HoldersOf(67890) = {1, 2} /\ HoldersOf(12345) = {1}
    /\ \E e \in processFDs : e.fd = 67890 /\ e.process.Pid = 1 /\ e \notin RootOrderMap
    /\ \E e \in processFDs : e.fd = 12345 /\ e \in RootOrderMap


\* the socket inodes of the listed entries of the root
AllSocketInodes == UNION {SocketInodesOf(k) : k \in ListedEntries}

\* C35: GetProcessFDs returns an error only when the process root cannot
\* be listed; with a cancelled context it still returns after all its
\* goroutines, with a nil error and a map, possibly partial, in which every
\* inode is mapped to a PID that holds it.
C35_ErrorOnlyForRoot ==
    fdPc = "returned" =>
        /\ procErr # "nil" <=> ~fdTree.ok
        /\ ~fdTree.ok => processFDs = {}
        /\ \A k \in 1..Len(fdWorkers) : fdWorkers[k].pc = "done"
        /\ {e.fd : e \in processFDs} \subseteq AllSocketInodes
        /\ \A e \in processFDs : e.process.Pid \in HoldersOf(e.fd)

\* the context was cancelled while the goroutines ran: the call returned a
\* nil error and a map with some of the socket inodes, not all
C35_Witness ==
    /\ fdPc = "returned" /\ fdCtxDone /\ procErr = "nil"
    /\ processFDs # {}
    /\ {e.fd : e \in processFDs} # AllSocketInodes


\* the distinct wanted inode strings of the call
WantedInodes == {nsCall.inode[i] : i \in 1..Len(nsCall.inode)}

\* the PIDs of the map that claimed the inode string f
ClaimedBy(f) == {e.pid : e \in {x \in pidNetNSMap : x.pid \in PidsLinkedTo(f)}}

\* every wanted inode some process lives in has one PID in the map, and
\* the map has no more entries than there are wanted inodes
OnePidPerInode ==
    /\ \A f \in WantedInodes : PidsLinkedTo(f) # {} => Cardinality(ClaimedBy(f)) = 1
    /\ Cardinality(pidNetNSMap) <= Cardinality(WantedInodes)

\* C36 as stated: when getPidofNetNsFromProcInodes returns, each distinct
\* wanted inode string that is the ns/net link of some process has been
\* claimed by exactly one PID, and the result has no more entries than
\* there are distinct wanted inodes.
C36_OnePidPerInode == PidofReturned => OnePidPerInode

\* C36, amended: the same, for the calls whose netNSNames holds a name for
\* every wanted inode.
C36_OnePidPerNamedInode ==
    (PidofReturned /\ Len(nsCall.names) >= Len(nsCall.inode)) => OnePidPerInode

\* PIDs 1 and 2 live in the namespace net:[1], which is wanted with
\* net:[2], where nobody lives: one of the two PIDs is in the map
C36_Witness ==
    /\ PidofReturned
    /\ nsCall.inode = <<NetLink(1), NetLink(2)>> /\ nsCall.names = <<"netns1", "netns2">>
    /\ PidsLinkedTo(NetLink(1)) = {1, 2}
    /\ Cardinality(pidNetNSMap) = 1
    /\ \E e \in pidNetNSMap : e.pid = 2 /\ e.name = "netns1"


\* the positions at which a name was requested together with its inode
RequestedNames ==
    {i \in 1..Len(nsCall.names) : i <= Len(nsCall.inode)}

\* the requested name at position i is a value of the returned map
NameMapped(i) == \E e \in pidNetNSMap : e.name = nsCall.names[i]

\* no later position asks for the inode of position i
LastOfItsInode(i) ==
    \A h \in (i + 1)..Len(nsCall.inode) : nsCall.inode[h] # nsCall.inode[i]

\* C37 as stated: when getPidofNetNsFromProcInodes returns, every requested
\* name whose inode is the ns/net link target of some process is a value of
\* the returned map, also when two requested names have the same inode.
C37_EveryNameMapped ==
    PidofReturned =>
        \A i \in RequestedNames :
            PidsLinkedTo(nsCall.inode[i]) # {} => NameMapped(i)

\* C37, amended: the same for the names whose inode is not requested again
\* at a later position; of the names that share an inode only the last is
\* looked for.
C37_LastNameOfInodeMapped ==
    PidofReturned =>
        \A i \in RequestedNames :
            (LastOfItsInode(i) /\ PidsLinkedTo(nsCall.inode[i]) # {}) => NameMapped(i)

\* netns1 and netns2 both have the inode net:[2], where PID 2 lives: the
\* returned map holds netns2 and not netns1
C37_Witness ==
    /\ PidofReturned
    /\ nsCall.inode = <<NetLink(2), NetLink(2)>> /\ nsCall.names = <<"netns1", "netns2">>
    /\ PidsLinkedTo(NetLink(2)) # {}
    /\ NameMapped(2) /\ ~NameMapped(1)


\* parseSocktab was called on a table and has returned
SocktabReturned == fcall.op = "parseSocktab" /\ fret.done

\* what C38 compares of a result of parseSockTab: whether it succeeded, and
\* of each entry the endpoints, state, uid, inode and transport
ScanView(r) ==
    [ok |-> r.err = "nil",
     tabs |-> [k \in 1..Len(r.tabs) |->
                 [Local |-> r.tabs[k].LocalEndpoint, Remote |-> r.tabs[k].RemoteEndpoint,
                  State |-> r.tabs[k].State, UID |-> r.tabs[k].UID,
                  Inode |-> [err |-> "nil", v |-> r.tabs[k].Inode],
                  Transport |-> r.tabs[k].Transport]]]

\* the same of a result of parseSocktab, with the number the text of the
\* inode stands for
FieldsView(q) ==
    [ok |-> q.err = "nil",
     tabs |-> [k \in 1..Len(q.tabs) |->
                 [Local |-> q.tabs[k].LocalAddr, Remote |-> q.tabs[k].RemoteAddr,
                  State |-> q.tabs[k].State, UID |-> q.tabs[k].UID,
                  Inode |-> ParseUint(q.tabs[k].ino, 10, 64),
                  Transport |-> q.tabs[k].Proto]]]

\* C38: for every table, parseSocktab (fields split at white space) and
\* parseSockTab (formatted scan) both fail or both succeed, and on success
\* they return the same number of entries in the same order with equal
\* endpoints, state, uid, inode and transport.
C38_ParsersEquivalent ==
    SocktabReturned =>
        ScanView(parseSockTabText(fcall.arg, fcall.accept, "tcp")) = FieldsView(fret)


\* processes.getProcess was called on the text of a status file and is over
GetProcessReturned == fcall.op = "getProcess" /\ fret.done

\* the second fields that are a command name in parentheses
NameFields ==
    {f \in NameInputs \cup {<<"(", "a", "(", "a", ")", "a", ")">>} :
        Len(f) >= 2 /\ f[1] = "(" /\ f[Len(f)] = ")"}

\* C39: for a status line whose command name holds spaces or parentheses,
\* processes.getProcess returns a Process whose name is the whole text
\* between the first '(' and the last ')' of the name field.
C39_WholeNameOfStatusLine ==
    \A f \in NameFields :
        (GetProcessReturned /\ fcall.arg = StatLine(f)) =>
            ~fret.panic /\ fret.p.Name = SubSeq(f, 2, Len(f) - 1)

\* C40: for every text of a readable status file, the empty one and the
\* one without a second field included, processes.getProcess returns
\* without an out-of-range access a Process with the right Pid, whose name
\* is empty when the text has no name in parentheses.
C40_NeverOutOfRange ==
    GetProcessReturned =>
        /\ ~fret.panic
        /\ fret.p.Pid = 12
        /\ (\A k \in 1..Len(fcall.arg) : fcall.arg[k] # "(") => fret.p.Name = <<>>

====
